---- MODULE Spec2Model ----
(***************************************************************************)
(* Verification model of the whistle-Morse pipeline of micmorseinput:      *)
(*   - MorseDecoder  (src/unnamed/part_001): per-frame Mark/Space state    *)
(*     machine, run classification, Morse table lookup, idle watchdog;     *)
(*   - MorseAnalyzer (src/unnamed/part_002): the tone tracker.             *)
(*                                                                         *)
(* Representation conventions                                              *)
(*   - a JavaScript string is a sequence of one-character strings, so      *)
(*     "SOS" is <<"S","O","S">> and += is Append / \o;                      *)
(*   - a non-integer JavaScript number is an exact fraction <<num, den>>    *)
(*     with den > 0 (durations and timing thresholds of the decoder);      *)
(*   - Date.now() is the variable now, in milliseconds since the decoder   *)
(*     was constructed; the environment action Tick lets time pass.        *)
(***************************************************************************)
EXTENDS Integers, Sequences, FiniteSets, TLC

(***************************************************************************)
(* Bounds of the model (not program constants).                            *)
(***************************************************************************)
\* longest MARK run that is modelled (frames)
MaxMarkRun == 19
\* longest SPACE run that is modelled (frames)
MaxSpaceRun == 46
\* number of dit/dah symbols keyed in one free-running session
MaxSymbols == 3
\* number of clock steps that pass in one session
MaxTicks == 2
\* longest pending symbol sequence a session of SpecPending starts with
MaxPending == 6
\* longest silence fed after the SOS pattern (frames)
MaxTrail == 47
\* audioParams of the modelled session; the snapshot has fftSize / 2 bins
fftSize == 128
sampleRate == 8000
\* base-5 fraction digits a tracked bin index carries: the number of
\* smoothing steps that can follow one another before precision runs out
FracDigits == 2
\* longest run of analyze calls without a peak that is modelled
MaxLossFrames == 32
\* getDecodedText calls modelled between two process calls
MaxReads == 2
\* frames the driving loop of App takes in one modelled run
MaxFrames == 3
\* longest run of lost frames in a session with snapshots of any length
MaxShortLoss == 3
\* isolated one-frame MARKs replaced in one session of two decoders
MaxNoise == 1
\* handleStateChange(true) calls that reach getUserMedia in one session
MaxStarts == 2
\* runs of frames in a session that feeds the decoder and the renderer
MaxRuns == 3

(***************************************************************************)
(* Program constants of MorseDecoder (constructor defaults).               *)
(***************************************************************************)
SPACE == 0
MARK == 1
\* JavaScript null, for a field that holds an object or null
null == 0
\* UIRenderer keeps 5 seconds of frames (part_003 line 47)
maxHistorySize == 300
framesPerSecond == 60
volumeThreshold == 40
\* ditTime = 0.15 s, kept as the fraction ditTimeNum / ditTimeDen
ditTimeNum == 15
ditTimeDen == 100
resetTimeout == 5000
\* milliseconds that pass in one Tick of the environment clock: one Tick
\* reaches the timeout exactly, a second one exceeds it
ClockStep == resetTimeout
\* volumes of a free-running frame: exactly the threshold, just above it
Volumes == {volumeThreshold, volumeThreshold + 1}
\* the constant MARK volumes of the SOS pattern
MarkVolumes == {volumeThreshold + 1, 255}

\* (ditTime * 2) * framesPerSecond
dahTimeFrames == <<(ditTimeNum * 2) * framesPerSecond, ditTimeDen>>
\* (ditTime * 2) * framesPerSecond
charSpaceFrames == <<(ditTimeNum * 2) * framesPerSecond, ditTimeDen>>
\* (ditTime * 5) * framesPerSecond
wordSpaceFrames == <<(ditTimeNum * 5) * framesPerSecond, ditTimeDen>>

(***************************************************************************)
(* Exact fractions.                                                        *)
(***************************************************************************)
Frac(n) == <<n, 1>>
FracLT(a, b) == a[1] * b[2] < b[1] * a[2]
FracGT(a, b) == FracLT(b, a)
FracDiv(a, n) == <<a[1], a[2] * n>>

(***************************************************************************)
(* MORSE_CODE_MAP, keyed by the joined symbol sequence.                    *)
(***************************************************************************)
MORSE_CODE_MAP ==
    (<<".", "-">> :> "A") @@ (<<"-", ".", ".", ".">> :> "B") @@
    (<<"-", ".", "-", ".">> :> "C") @@ (<<"-", ".", ".">> :> "D") @@
    (<<".">> :> "E") @@ (<<".", ".", "-", ".">> :> "F") @@
    (<<"-", "-", ".">> :> "G") @@ (<<".", ".", ".", ".">> :> "H") @@
    (<<".", ".">> :> "I") @@ (<<".", "-", "-", "-">> :> "J") @@
    (<<"-", ".", "-">> :> "K") @@ (<<".", "-", ".", ".">> :> "L") @@
    (<<"-", "-">> :> "M") @@ (<<"-", ".">> :> "N") @@
    (<<"-", "-", "-">> :> "O") @@ (<<".", "-", "-", ".">> :> "P") @@
    (<<"-", "-", ".", "-">> :> "Q") @@ (<<".", "-", ".">> :> "R") @@
    (<<".", ".", ".">> :> "S") @@ (<<"-">> :> "T") @@
    (<<".", ".", "-">> :> "U") @@ (<<".", ".", ".", "-">> :> "V") @@
    (<<".", "-", "-">> :> "W") @@ (<<"-", ".", ".", "-">> :> "X") @@
    (<<"-", ".", "-", "-">> :> "Y") @@ (<<"-", "-", ".", ".">> :> "Z") @@
    (<<"-", "-", "-", "-", "-">> :> "0") @@ (<<".", "-", "-", "-", "-">> :> "1") @@
    (<<".", ".", "-", "-", "-">> :> "2") @@ (<<".", ".", ".", "-", "-">> :> "3") @@
    (<<".", ".", ".", ".", "-">> :> "4") @@ (<<".", ".", ".", ".", ".">> :> "5") @@
    (<<"-", ".", ".", ".", ".">> :> "6") @@ (<<"-", "-", ".", ".", ".">> :> "7") @@
    (<<"-", "-", "-", ".", ".">> :> "8") @@ (<<"-", "-", "-", "-", ".">> :> "9")

VARIABLES
    \* MorseDecoder fields
    state, currentStateDuration, currentSequence, decodedText, lastMarkTime,
    \* Date.now()
    now,
    \* observation of the last process call: its volume ("none" before the
    \* first call) and whether its watchdog branch was taken
    lastVolume, watchdogFired,
    \* number of symbols pushed so far
    symbolCount,
    \* number of most recent consecutive frames given to process that were
    \* classified like the last one (0 before the first call)
    sameClassFrames,
    \* getDecodedText calls since the last process call, and what the last
    \* of them returned (the empty string before the first)
    reads, preview,
    \* SOS session: the MARK volume, frames of the pattern fed, frames fed after it
    markVolume, fed, trail,
    \* MorseAnalyzer fields
    persistedFreqIndex, smoothedFreqIndex, framesSinceLastPeak,
    \* the snapshot of the last analyze call
    frequencyData,
    \* observation of the last analyze call: whether there was one, the
    \* fields before it, its currentRawPeakIndex and the object it returned
    analysis,
    \* number of consecutive most recent calls that accepted no peak
    lossRun,
    \* DomController's isCapturing
    capturing,
    \* AudioCapturer's fields audioContext, analyser and mediaStream (null
    \* or the number of the start() call that made the object), and the
    \* streams whose tracks have not been stopped
    audioCapturer, liveStreams,
    \* handleStateChange(true) calls waiting for getUserMedia, and the last
    \* start() call that got its answer: its number, whether it threw, and
    \* the stream it had acquired (null if none)
    starting, lastStart,
    \* App's fields: whether analyzer is set and whether animationFrameId is
    analyzerMade, animationFrameId,
    \* requestAnimationFrame callbacks of update waiting for the next
    \* animation frame, callbacks of the running animation frame still to
    \* be called, and analyze calls made on the current snapshot
    callbacks, due, frameCalls,
    \* the work the loop has done: snapshots taken and analyze calls made
    pipeline,
    \* observation of a direct _findSharpestPeak call: its arguments and
    \* the object it returned
    sharpest,
    \* a second MorseDecoder, fed the same frames as the first but for the
    \* isolated one-frame MARKs, which are replaced by SPACE frames; and the
    \* replacements so far: how many, and whether the last frame was one
    twin, noise,
    \* a session that feeds the decoder and the renderer the same frames: the
    \* runs <<class, length>> taken so far and the frames still to come of
    \* the last one; and the _handleStateChange calls process has made for
    \* ended runs: the frames [start, end) of the run, counted from 0 over
    \* the session, and the branch taken
    feed, runLog,
    \* UIRenderer's fields volumeHistory, spectrogramHistory, frequencyHistory
    volumeHistory, spectrogramHistory, frequencyHistory,
    \* the markers <<startIndex, endIndex, type>> the last render call drew,
    \* and the number of render calls so far
    markers, renderCalls

decoderVars == <<state, currentStateDuration, currentSequence, decodedText,
                 lastMarkTime, now, lastVolume, watchdogFired, symbolCount,
                 sameClassFrames, reads, preview>>

sosVars == <<markVolume, fed, trail>>

trackerVars == <<persistedFreqIndex, smoothedFreqIndex, framesSinceLastPeak,
                 frequencyData, analysis, lossRun>>

appVars == <<capturing, audioCapturer, liveStreams, starting, lastStart,
             analyzerMade, animationFrameId, callbacks, due, frameCalls, pipeline>>

probeVars == <<sharpest, twin, noise, feed, runLog>>

rendererVars == <<volumeHistory, spectrogramHistory, frequencyHistory, markers,
                  renderCalls>>

(***************************************************************************)
(* MorseDecoder, as operators over the pair d = [currentSequence,          *)
(* decodedText] the private methods mutate.                                *)
(***************************************************************************)
endsWithSpace(text) == Len(text) > 0 /\ text[Len(text)] = " "

\* lookup without the fallback: string concatenation of undefined
lookup_undefined(sequence) ==
    IF sequence \in DOMAIN MORSE_CODE_MAP THEN MORSE_CODE_MAP[sequence] ELSE "undefined"

\* MORSE_CODE_MAP[sequenceStr], "?" when the lookup is undefined
lookup(sequence) ==
    IF sequence \in DOMAIN MORSE_CODE_MAP THEN MORSE_CODE_MAP[sequence] ELSE "?"

\* _decodeSequence that forgets to clear the sequence
decodeSequence_noClear(d) ==
    IF Len(d.currentSequence) = 0
    THEN d
    ELSE [ d EXCEPT !.decodedText = Append(@, lookup(d.currentSequence)) ]

\* _decodeSequence that assigns the character instead of appending it
decodeSequence_overwrite(d) ==
    IF Len(d.currentSequence) = 0
    THEN d
    ELSE [ currentSequence |-> << >>,
           decodedText |-> <<lookup(d.currentSequence)>> ]

\* _decodeSequence
decodeSequence(d) ==
    IF Len(d.currentSequence) = 0
    THEN d
    ELSE [ currentSequence |-> << >>,
           decodedText |-> Append(d.decodedText, lookup(d.currentSequence)) ]

\* _handleStateChange whose dit test is duration <= dahTimeFrames
handleStateChange_dahExclusive(d, lastState, durationFrames) ==
    IF lastState = MARK
    THEN IF FracGT(durationFrames, Frac(1))
         THEN [ d EXCEPT !.currentSequence =
                    Append(@, IF ~FracGT(durationFrames, dahTimeFrames)
                              THEN "." ELSE "-") ]
         ELSE d
    ELSE IF FracGT(durationFrames, wordSpaceFrames)
         THEN LET e == decodeSequence(d)
              IN  IF ~endsWithSpace(e.decodedText)
                  THEN [ e EXCEPT !.decodedText = Append(@, " ") ]
                  ELSE e
         ELSE IF FracGT(durationFrames, charSpaceFrames)
              THEN decodeSequence(d)
              ELSE d

\* _handleStateChange without the endsWith(' ') test
handleStateChange_alwaysSpace(d, lastState, durationFrames) ==
    IF lastState = MARK
    THEN IF FracGT(durationFrames, Frac(1))
         THEN [ d EXCEPT !.currentSequence =
                    Append(@, IF FracLT(durationFrames, dahTimeFrames)
                              THEN "." ELSE "-") ]
         ELSE d
    ELSE IF FracGT(durationFrames, wordSpaceFrames)
         THEN LET e == decodeSequence(d)
              IN  [ e EXCEPT !.decodedText = Append(@, " ") ]
         ELSE IF FracGT(durationFrames, charSpaceFrames)
              THEN decodeSequence(d)
              ELSE d

\* _handleStateChange whose character boundary is duration >= charSpaceFrames
handleStateChange_charInclusive(d, lastState, durationFrames) ==
    IF lastState = MARK
    THEN IF FracGT(durationFrames, Frac(1))
         THEN [ d EXCEPT !.currentSequence =
                    Append(@, IF FracLT(durationFrames, dahTimeFrames)
                              THEN "." ELSE "-") ]
         ELSE d
    ELSE IF FracGT(durationFrames, wordSpaceFrames)
         THEN LET e == decodeSequence(d)
              IN  IF ~endsWithSpace(e.decodedText)
                  THEN [ e EXCEPT !.decodedText = Append(@, " ") ]
                  ELSE e
         ELSE IF ~FracLT(durationFrames, charSpaceFrames)
              THEN decodeSequence(d)
              ELSE d

\* _handleStateChange that appends the word space before it decodes
handleStateChange_spaceFirst(d, lastState, durationFrames) ==
    IF lastState = MARK
    THEN IF FracGT(durationFrames, Frac(1))
         THEN [ d EXCEPT !.currentSequence =
                    Append(@, IF FracLT(durationFrames, dahTimeFrames)
                              THEN "." ELSE "-") ]
         ELSE d
    ELSE IF FracGT(durationFrames, wordSpaceFrames)
         THEN decodeSequence(IF ~endsWithSpace(d.decodedText)
                             THEN [ d EXCEPT !.decodedText = Append(@, " ") ]
                             ELSE d)
         ELSE IF FracGT(durationFrames, charSpaceFrames)
              THEN decodeSequence(d)
              ELSE d

\* _handleStateChange(lastState, durationFrames); durationFrames is a fraction
handleStateChange(d, lastState, durationFrames) ==
    IF lastState = MARK
    THEN IF FracGT(durationFrames, Frac(1))
         THEN [ d EXCEPT !.currentSequence =
                    Append(@, IF FracLT(durationFrames, dahTimeFrames)
                              THEN "." ELSE "-") ]
         ELSE d
    ELSE IF FracGT(durationFrames, wordSpaceFrames)
         THEN LET e == decodeSequence(d)
              IN  IF ~endsWithSpace(e.decodedText)
                  THEN [ e EXCEPT !.decodedText = Append(@, " ") ]
                  ELSE e
         ELSE IF FracGT(durationFrames, charSpaceFrames)
              THEN decodeSequence(d)
              ELSE d

\* the branch of _handleStateChange(lastState, durationFrames) taken
handleStateChangeBranch(lastState, durationFrames) ==
    IF lastState = MARK
    THEN IF FracGT(durationFrames, Frac(1))
         THEN IF FracLT(durationFrames, dahTimeFrames) THEN "." ELSE "-"
         ELSE "no action"
    ELSE IF FracGT(durationFrames, wordSpaceFrames)
         THEN "word boundary"
         ELSE IF FracGT(durationFrames, charSpaceFrames)
              THEN "character boundary"
              ELSE "no action"

\* the watchdog condition of process (line 63)
idleTimeout == (now - lastMarkTime) > resetTimeout

\* the watchdog handing over wordSpaceFrames itself, a duration in frames
watchdogDuration_inFrames == wordSpaceFrames

\* the duration process hands to the watchdog's _handleStateChange (line 64)
watchdogDuration == FracDiv(wordSpaceFrames, framesPerSecond)

\* the frame classification with a volume equal to the threshold as MARK
classify_inclusive(targetVolume) == IF targetVolume >= volumeThreshold THEN MARK ELSE SPACE

\* the frame classification of process (line 67)
classify(targetVolume) == IF targetVolume > volumeThreshold THEN MARK ELSE SPACE

\* a getDecodedText that previews the character the pending symbols map to
getDecodedText_mappedPreview ==
    IF currentSequence = << >> THEN decodedText
    ELSE Append(decodedText, lookup(currentSequence))

\* getDecodedText(): decodedText + currentSequence.join('')
getDecodedText == decodedText \o currentSequence

\* the decoder's sequence and text after process(targetVolume)
processed(targetVolume) ==
    LET d0 == [ currentSequence |-> currentSequence, decodedText |-> decodedText ]
        d1 == IF idleTimeout
              THEN handleStateChange(d0, SPACE, watchdogDuration)
              ELSE d0
    IN  IF classify(targetVolume) = state
        THEN d1
        ELSE handleStateChange(d1, state, Frac(currentStateDuration))

\* process that stamps lastMarkTime on every frame, SPACE frames included
process_stampEveryFrame(targetVolume) ==
    LET newState == classify(targetVolume)
        d == processed(targetVolume)
    IN  /\ currentStateDuration' =
               IF newState = state THEN currentStateDuration + 1 ELSE 1
        /\ state' = newState
        /\ currentSequence' = d.currentSequence
        /\ decodedText' = d.decodedText
        /\ lastMarkTime' = now
        /\ lastVolume' = targetVolume
        /\ watchdogFired' = idleTimeout
        /\ symbolCount' =
               IF state = MARK /\ newState = SPACE /\ currentStateDuration > 1
               THEN symbolCount + 1 ELSE symbolCount
        /\ sameClassFrames' =
               IF sameClassFrames > 0 /\ classify(lastVolume) = newState
               THEN sameClassFrames + 1 ELSE 1
        /\ reads' = 0
        /\ preview' = << >>
        /\ UNCHANGED now

\* process(targetVolume)
process(targetVolume) ==
    LET newState == classify(targetVolume)
        d == processed(targetVolume)
    IN  /\ currentStateDuration' =
               IF newState = state THEN currentStateDuration + 1 ELSE 1
        /\ state' = newState
        /\ currentSequence' = d.currentSequence
        /\ decodedText' = d.decodedText
        /\ lastMarkTime' = IF newState = MARK THEN now ELSE lastMarkTime
        /\ lastVolume' = targetVolume
        /\ watchdogFired' = idleTimeout
        /\ symbolCount' =
               IF state = MARK /\ newState = SPACE /\ currentStateDuration > 1
               THEN symbolCount + 1 ELSE symbolCount
        /\ sameClassFrames' =
               IF sameClassFrames > 0 /\ classify(lastVolume) = newState
               THEN sameClassFrames + 1 ELSE 1
        /\ reads' = 0
        /\ preview' = << >>
        /\ UNCHANGED now

\* process(targetVolume) at time t on the decoder whose fields are the
\* record dec: the fields after the call
afterProcess(dec, t, targetVolume) ==
    LET newState == classify(targetVolume)
        d0 == [ currentSequence |-> dec.currentSequence,
                decodedText |-> dec.decodedText ]
        d1 == IF (t - dec.lastMarkTime) > resetTimeout
              THEN handleStateChange(d0, SPACE, watchdogDuration)
              ELSE d0
        d2 == IF newState = dec.state
              THEN d1
              ELSE handleStateChange(d1, dec.state, Frac(dec.currentStateDuration))
    IN  [ state |-> newState,
          currentStateDuration |->
              IF newState = dec.state THEN dec.currentStateDuration + 1 ELSE 1,
          currentSequence |-> d2.currentSequence,
          decodedText |-> d2.decodedText,
          lastMarkTime |-> IF newState = MARK THEN t ELSE dec.lastMarkTime ]

\* the frames the model lets a free-running session take: runs and the
\* number of keyed symbols stay within the bounds
withinBounds(targetVolume) ==
    /\ classify(targetVolume) = state =>
           currentStateDuration < (IF state = MARK THEN MaxMarkRun ELSE MaxSpaceRun)
    /\ (state = MARK /\ classify(targetVolume) = SPACE /\ currentStateDuration > 1) =>
           symbolCount < MaxSymbols

\* one frame of the driving loop
Process ==
    \E v \in Volumes :
        /\ withinBounds(v)
        /\ process(v)
        /\ UNCHANGED <<sosVars, trackerVars, appVars, probeVars, rendererVars>>

\* a getDecodedText that finalizes the pending sequence before returning
GetDecodedText_flushing ==
    /\ reads < MaxReads
    /\ preview' = getDecodedText
    /\ reads' = reads + 1
    /\ currentSequence' = << >>
    /\ decodedText' =
           decodeSequence([ currentSequence |-> currentSequence,
                            decodedText |-> decodedText ]).decodedText
    /\ UNCHANGED <<state, currentStateDuration, lastMarkTime, now, lastVolume,
                   watchdogFired, symbolCount, sameClassFrames>>
    /\ UNCHANGED <<sosVars, trackerVars, appVars, probeVars, rendererVars>>

\* a consumer calls getDecodedText() between two frames
GetDecodedText ==
    /\ reads < MaxReads
    /\ preview' = getDecodedText
    /\ reads' = reads + 1
    /\ UNCHANGED <<state, currentStateDuration, currentSequence, decodedText,
                   lastMarkTime, now, lastVolume, watchdogFired, symbolCount,
                   sameClassFrames>>
    /\ UNCHANGED <<sosVars, trackerVars, appVars, probeVars, rendererVars>>

\* the wall clock advances between two frames
Tick ==
    /\ now < MaxTicks * ClockStep
    /\ now' = now + ClockStep
    /\ UNCHANGED <<state, currentStateDuration, currentSequence, decodedText,
                   lastMarkTime, lastVolume, watchdogFired, symbolCount,
                   sameClassFrames, reads, preview>>
    /\ UNCHANGED <<sosVars, trackerVars, appVars, probeVars, rendererVars>>

(***************************************************************************)
(* The canonical timing pattern of "SOS": one unit is ditTime *            *)
(* framesPerSecond frames.                                                 *)
(***************************************************************************)
unitFrames == (ditTimeNum * framesPerSecond) \div ditTimeDen

Rep(n, x) == [i \in 1..n |-> x]
Dit == Rep(unitFrames, MARK)
Dah == Rep(3 * unitFrames, MARK)
SymGap == Rep(unitFrames, SPACE)
CharGap == Rep(3 * unitFrames, SPACE)
LetterS == Dit \o SymGap \o Dit \o SymGap \o Dit
LetterO == Dah \o SymGap \o Dah \o SymGap \o Dah
\* the frame classes of the pattern, in order
SOSPattern == LetterS \o CharGap \o LetterO \o CharGap \o LetterS

\* feed the next frame of the pattern: MARK at markVolume, SPACE at volume 0
Feed ==
    /\ fed < Len(SOSPattern)
    /\ process(IF SOSPattern[fed + 1] = MARK THEN markVolume ELSE 0)
    /\ fed' = fed + 1
    /\ UNCHANGED <<markVolume, trail, trackerVars, appVars, probeVars, rendererVars>>

\* silence after the pattern
TrailSpace ==
    /\ fed = Len(SOSPattern)
    /\ trail < MaxTrail
    /\ trail = 0 \/ state = SPACE
    /\ process(0)
    /\ trail' = trail + 1
    /\ UNCHANGED <<markVolume, fed, trackerVars, appVars, probeVars, rendererVars>>

\* the MARK frame that ends the silence after the pattern
TrailMark ==
    /\ fed = Len(SOSPattern)
    /\ trail > 0
    /\ state = SPACE
    /\ process(markVolume)
    /\ trail' = trail + 1
    /\ UNCHANGED <<markVolume, fed, trackerVars, appVars, probeVars, rendererVars>>

(***************************************************************************)
(* MorseAnalyzer (the tone tracker).                                       *)
(*                                                                         *)
(* A bin index is a JavaScript number: the tracked indices are stored in   *)
(* units of 1 / Scale bin, so bin i is the number i * Scale and the        *)
(* sentinel -1 is Unset.  Smoothing by the factor 0.2 divides by 5, which  *)
(* is exact as long as FracDigits base-5 digits are left.                  *)
(***************************************************************************)
frequencyBandwidth == 5
noiseThreshold == 30
\* sharpnessThreshold = 2.5, as the fraction <<5, 2>>
sharpnessThreshold == <<5, 2>>
\* smoothingFactor = 0.2, as the fraction <<1, 5>>
smoothingFactor == <<1, 5>>
searchNeighborhood == 20
maxFramesToPersist == 30
\* const neighborhood of _findSharpestPeak
neighborhood == 10
\* the frequencies behind defaultFreqIndex and the low cutoff of the global search
defaultHz == 2000
cutoffHz == 100

Scale == 5 ^ FracDigits
FromBin(i) == i * Scale
Unset == FromBin(-1)
IsBin(x) == x % Scale = 0
Max(a, b) == IF a > b THEN a ELSE b
Min(a, b) == IF a < b THEN a ELSE b
Abs(a) == IF a < 0 THEN 0 - a ELSE a
\* Math.round of the fraction n / d (d > 0, n >= 0): half rounds up
Round(n, d) == (2 * n + d) \div (2 * d)
\* Math.floor of the fraction n / d
Floor(n, d) == n \div d

\* analyser.frequencyBinCount, the length of every snapshot of the session
N == fftSize \div 2
Bins == 0..(N - 1)

\* Math.round(2000 * fftSize / sampleRate), as a bin
defaultBin == Round(defaultHz * fftSize, sampleRate)
defaultFreqIndex == FromBin(defaultBin)
\* Math.floor(100 * fftSize / sampleRate), as a bin
cutoffBin == Floor(cutoffHz * fftSize, sampleRate)

RECURSIVE Sum(_, _)
Sum(f, S) ==
    IF S = {} THEN 0
    ELSE LET x == CHOOSE y \in S : TRUE IN f[x] + Sum(f, S \ {x})

\* frequencyData.length: a snapshot is an array indexed from 0
Length(data) == Cardinality(DOMAIN data)

NoPeak == [index |-> -1, volume |-> 0]

SetMax(S) == CHOOSE x \in S : \A y \in S : y <= x
SetMin(S) == CHOOSE x \in S : \A y \in S : x <= y

\* the bins the first loop of _findSharpestPeak reads: i = startIndex,
\* startIndex + 1, ... while i < endIndex; frequencyData[i] is undefined
\* (and never greater than peakVolume) unless i is an integer inside the
\* data.  startIndex and endIndex are in units of 1 / Scale.
visitedBins(data, startIndex, endIndex) ==
    { i \in DOMAIN data :
          /\ FromBin(i) >= startIndex
          /\ FromBin(i) < endIndex
          /\ IsBin(FromBin(i) - startIndex) }

\* the peak among the bins read, given its magnitude: the first bin that
\* carries it, or index -1 when no magnitude is above 0
firstAt(data, visited, peakVolume) ==
    [ index |-> IF peakVolume > 0
                THEN SetMin({i \in visited : data[i] = peakVolume})
                ELSE -1,
      volume |-> peakVolume ]

\* the largest magnitude above 0 among the bins read, at its first bin
largestOf(data, visited) ==
    firstAt(data, visited, SetMax({data[i] : i \in visited} \cup {0}))

\* the first loop of _findSharpestPeak (lines 48-56)
peakScan(data, startIndex, endIndex) ==
    largestOf(data, visitedBins(data, startIndex, endIndex))

\* the bins the second loop of _findSharpestPeak averages
neighborBins(data, peakIndex) ==
    { i \in (peakIndex - neighborhood)..(peakIndex + neighborhood - 1) :
          /\ i \in DOMAIN data
          /\ Abs(i - peakIndex) > frequencyBandwidth }

\* peakVolume < avgNeighborVolume * sharpnessThreshold, for the bins nb the
\* second loop averaged; avgNeighborVolume is 0 when there is none
flatterThan(data, peakIndex, nb) ==
    /\ Cardinality(nb) > 0
    /\ data[peakIndex] * sharpnessThreshold[2] * Cardinality(nb)
           < Sum(data, nb) * sharpnessThreshold[1]

\* the sharpness test of _findSharpestPeak fails (lines 62-76)
tooFlat(data, peakIndex) ==
    flatterThan(data, peakIndex, neighborBins(data, peakIndex))

\* what _findSharpestPeak returns for the peak its first loop found
sharpOrNone(data, peak) ==
    IF peak.volume < noiseThreshold THEN NoPeak
    ELSE IF tooFlat(data, peak.index) THEN NoPeak
    ELSE peak

\* _findSharpestPeak(frequencyData, startIndex, endIndex); the two indices
\* are numbers in units of 1 / Scale, the result's index is a bin or -1
findSharpestPeak(data, startIndex, endIndex) ==
    sharpOrNone(data, peakScan(data, startIndex, endIndex))

\* the local search of analyze (lines 89-94)
localSearch(fd, anchor) ==
    IF anchor # Unset
    THEN findSharpestPeak(fd,
             Max(0, anchor - FromBin(searchNeighborhood)),
             Min(FromBin(Length(fd)), anchor + FromBin(searchNeighborhood))).index
    ELSE -1

\* the global search without its low-frequency cutoff
globalSearch_fromZero(fd) ==
    findSharpestPeak(fd, FromBin(0), FromBin(Length(fd))).index

\* the global search of analyze (lines 96-101)
globalSearch(fd) ==
    findSharpestPeak(fd, FromBin(cutoffBin), FromBin(Length(fd))).index

\* the global search replaces a local search that found nothing
orGlobal(fd, local) == IF local = -1 THEN globalSearch(fd) ELSE local

\* currentRawPeakIndex of analyze
rawPeak(fd, anchor) == orGlobal(fd, localSearch(fd, anchor))

\* a blend whose factor is 1 + smoothingFactor: it passes the raw peak
blend_overshoot(smoothed, raw) ==
    smoothed + ((FromBin(raw) - smoothed) * (smoothingFactor[2] + smoothingFactor[1]))
                   \div smoothingFactor[2]

\* smoothedFreqIndex += (currentRawPeakIndex - smoothedFreqIndex) * smoothingFactor
blend(smoothed, raw) ==
    smoothed + ((FromBin(raw) - smoothed) * smoothingFactor[1]) \div smoothingFactor[2]

\* the persistence step giving the position up on the first lost frame
tracked_dropOnLoss(smoothed, persisted, frames, raw) ==
    IF raw # -1
    THEN LET s == IF smoothed = Unset THEN FromBin(raw) ELSE blend(smoothed, raw)
         IN  [smoothed |-> s, persisted |-> s, frames |-> 0]
    ELSE [smoothed |-> Unset, persisted |-> defaultFreqIndex, frames |-> frames + 1]

\* the persistence step that resets the anchor to the unset value
tracked_unsetAnchor(smoothed, persisted, frames, raw) ==
    IF raw # -1
    THEN LET s == IF smoothed = Unset THEN FromBin(raw) ELSE blend(smoothed, raw)
         IN  [smoothed |-> s, persisted |-> s, frames |-> 0]
    ELSE IF frames + 1 > maxFramesToPersist
         THEN [smoothed |-> Unset, persisted |-> Unset, frames |-> frames + 1]
         ELSE [smoothed |-> smoothed, persisted |-> persisted, frames |-> frames + 1]

\* the persistence step giving the position up one lost frame later
tracked_lateReset(smoothed, persisted, frames, raw) ==
    IF raw # -1
    THEN LET s == IF smoothed = Unset THEN FromBin(raw) ELSE blend(smoothed, raw)
         IN  [smoothed |-> s, persisted |-> s, frames |-> 0]
    ELSE IF frames + 1 > maxFramesToPersist + 1
         THEN [smoothed |-> Unset, persisted |-> defaultFreqIndex, frames |-> frames + 1]
         ELSE [smoothed |-> smoothed, persisted |-> persisted, frames |-> frames + 1]

\* the persistence step that moves the anchor back to the default bin on
\* every lost frame while still holding the smoothed position
tracked_anchorToDefault(smoothed, persisted, frames, raw) ==
    IF raw # -1
    THEN LET s == IF smoothed = Unset THEN FromBin(raw) ELSE blend(smoothed, raw)
         IN  [smoothed |-> s, persisted |-> s, frames |-> 0]
    ELSE IF frames + 1 > maxFramesToPersist
         THEN [smoothed |-> Unset, persisted |-> defaultFreqIndex, frames |-> frames + 1]
         ELSE [smoothed |-> smoothed, persisted |-> defaultFreqIndex, frames |-> frames + 1]

\* the persistence step that clears the smoothed value after a sustained
\* loss but leaves the anchor where tracking last was
tracked_keepAnchor(smoothed, persisted, frames, raw) ==
    IF raw # -1
    THEN LET s == IF smoothed = Unset THEN FromBin(raw) ELSE blend(smoothed, raw)
         IN  [smoothed |-> s, persisted |-> s, frames |-> 0]
    ELSE IF frames + 1 > maxFramesToPersist
         THEN [smoothed |-> Unset, persisted |-> persisted, frames |-> frames + 1]
         ELSE [smoothed |-> smoothed, persisted |-> persisted, frames |-> frames + 1]

\* the persistence step that restarts the loss counter only when a first
\* target is acquired, not on every accepted peak
tracked_resetOnAcquire(smoothed, persisted, frames, raw) ==
    IF raw # -1
    THEN LET s == IF smoothed = Unset THEN FromBin(raw) ELSE blend(smoothed, raw)
         IN  [smoothed |-> s, persisted |-> s,
              frames |-> IF smoothed = Unset THEN 0 ELSE frames]
    ELSE IF frames + 1 > maxFramesToPersist
         THEN [smoothed |-> Unset, persisted |-> defaultFreqIndex, frames |-> frames + 1]
         ELSE [smoothed |-> smoothed, persisted |-> persisted, frames |-> frames + 1]

\* the fields after the smoothing and persistence step (lines 103-118)
tracked(smoothed, persisted, frames, raw) ==
    IF raw # -1
    THEN LET s == IF smoothed = Unset THEN FromBin(raw) ELSE blend(smoothed, raw)
         IN  [smoothed |-> s, persisted |-> s, frames |-> 0]
    ELSE IF frames + 1 > maxFramesToPersist
         THEN [smoothed |-> Unset, persisted |-> defaultFreqIndex, frames |-> frames + 1]
         ELSE [smoothed |-> smoothed, persisted |-> persisted, frames |-> frames + 1]

\* the volume output without the count > 0 test: 0 / 0 when no bin is averaged
targetVolumeAt_noCountGuard(fd, smoothed) ==
    IF smoothed = Unset THEN <<0, 1>>
    ELSE LET roundedIndex == Round(smoothed, Scale)
             startIndex == Max(0, roundedIndex - frequencyBandwidth)
             endIndex == Min(Length(fd) - 1, roundedIndex + frequencyBandwidth)
             count == Max(0, endIndex - startIndex + 1)
         IN  <<Sum(fd, startIndex..endIndex), count>>

\* the volume output whose averaging loop stops before endIndex
targetVolumeAt_exclusiveEnd(fd, smoothed) ==
    IF smoothed = Unset THEN <<0, 1>>
    ELSE LET roundedIndex == Round(smoothed, Scale)
             startIndex == Max(0, roundedIndex - frequencyBandwidth)
             endIndex == Min(Length(fd) - 1, roundedIndex + frequencyBandwidth)
             count == Max(0, endIndex - startIndex)
         IN  IF count > 0
             THEN <<Sum(fd, startIndex..(endIndex - 1)), count>>
             ELSE <<0, 1>>

\* the volume output (lines 120-137): the mean, as the fraction
\* <<totalVolume, count>>, of the bins around Math.round(smoothedFreqIndex)
targetVolumeAt(fd, smoothed) ==
    IF smoothed = Unset THEN <<0, 1>>
    ELSE LET roundedIndex == Round(smoothed, Scale)
             startIndex == Max(0, roundedIndex - frequencyBandwidth)
             endIndex == Min(Length(fd) - 1, roundedIndex + frequencyBandwidth)
             count == Max(0, endIndex - startIndex + 1)
         IN  IF count > 0
             THEN <<Sum(fd, startIndex..endIndex), count>>
             ELSE <<0, 1>>

\* analyze that reports the frame's raw peak instead of the smoothed index
analyze_reportRaw(fd) ==
    \E raw \in {rawPeak(fd, persistedFreqIndex)} :
    \E t \in {tracked(smoothedFreqIndex, persistedFreqIndex, framesSinceLastPeak, raw)} :
        /\ smoothedFreqIndex' = t.smoothed
        /\ persistedFreqIndex' = t.persisted
        /\ framesSinceLastPeak' = t.frames
        /\ frequencyData' = fd
        /\ lossRun' = IF raw = -1 THEN lossRun + 1 ELSE 0
        /\ analysis' = [ called |-> TRUE,
                         prevSmoothed |-> smoothedFreqIndex,
                         prevPersisted |-> persistedFreqIndex,
                         raw |-> raw,
                         dominantFreqIndex |-> FromBin(raw),
                         targetVolume |-> targetVolumeAt(fd, FromBin(raw)) ]

\* analyze(frequencyData)
analyze(fd) ==
    \E raw \in {rawPeak(fd, persistedFreqIndex)} :
    \E t \in {tracked(smoothedFreqIndex, persistedFreqIndex, framesSinceLastPeak, raw)} :
        /\ smoothedFreqIndex' = t.smoothed
        /\ persistedFreqIndex' = t.persisted
        /\ framesSinceLastPeak' = t.frames
        /\ frequencyData' = fd
        /\ lossRun' = IF raw = -1 THEN lossRun + 1 ELSE 0
        /\ analysis' = [ called |-> TRUE,
                         prevSmoothed |-> smoothedFreqIndex,
                         prevPersisted |-> persistedFreqIndex,
                         raw |-> raw,
                         dominantFreqIndex |-> t.smoothed,
                         targetVolume |-> targetVolumeAt(fd, t.smoothed) ]

(***************************************************************************)
(* The snapshots of the modelled session: N bins, indexed from 0 as in     *)
(* the Uint8Array.                                                         *)
(***************************************************************************)
\* every bin at the same magnitude
Flat(m) == [i \in Bins |-> m]
\* one bin at magnitude m over a background bg
OnePeak(bg, p, m) == (p :> m) @@ Flat(bg)
\* two bins at magnitudes m and k over silence
TwoPeaks(p, m, q, k) == (p :> m) @@ (q :> k) @@ Flat(0)

\* the default bin, a bin near it, and a bin beyond the first search window
PeakBins == {defaultBin, defaultBin + 3, defaultBin + searchNeighborhood + 8}

\* the shapes <<background, magnitude>> of a single narrow peak: loud over
\* silence, exactly at the noise floor over silence, exactly
\* sharpnessThreshold times a background of 40
PeakShapes == {<<0, 200>>, <<0, noiseThreshold>>, <<40, 100>>}

\* silence and loud broadband noise
FlatSnapshots == { Flat(m) : m \in {0, 100} }
\* a narrow peak of each shape at each of the bins
OnePeakSnapshots ==
    { OnePeak(x[1], p, x[2]) : x \in PeakShapes, p \in PeakBins }
\* a peak at the default bin just below the noise floor, and one just
\* short of sharpnessThreshold times its background
RejectedSnapshots ==
    { OnePeak(0, defaultBin, noiseThreshold - 1), OnePeak(40, defaultBin, 99) }
\* two tones, the second one louder
TwoPeakSnapshots ==
    { TwoPeaks(x[1], 100, x[2], 200) :
          x \in { y \in PeakBins \X PeakBins : y[1] # y[2] } }
Snapshots ==
    FlatSnapshots \cup OnePeakSnapshots \cup RejectedSnapshots \cup TwoPeakSnapshots

\* the calls the model lets a session take: loss runs stay within
\* MaxLossFrames and smoothing stays within the carried precision
rawWithinBounds(raw) ==
    /\ raw = -1 => framesSinceLastPeak < MaxLossFrames
    /\ (raw # -1 /\ smoothedFreqIndex # Unset) =>
           (FromBin(raw) - smoothedFreqIndex) % smoothingFactor[2] = 0

analyzeWithinBounds(fd) == rawWithinBounds(rawPeak(fd, persistedFreqIndex))

\* what analysis holds before the first analyze call
NoAnalysis ==
    [ called |-> FALSE,
      prevSmoothed |-> Unset,
      prevPersisted |-> defaultFreqIndex,
      raw |-> -1,
      dominantFreqIndex |-> Unset,
      targetVolume |-> <<0, 1>> ]

\* what sharpest holds before any direct _findSharpestPeak call
NoSearch ==
    [ called |-> FALSE,
      data |-> Flat(0),
      startIndex |-> 0,
      endIndex |-> 0,
      result |-> NoPeak ]

vars == <<decoderVars, sosVars, trackerVars, appVars, probeVars, rendererVars>>

\* new MorseDecoder({}) and new MorseAnalyzer(audioParams), before any frame
Init ==
    /\ state = SPACE
    /\ currentStateDuration = 0
    /\ currentSequence = << >>
    /\ decodedText = << >>
    /\ now = 0
    /\ lastMarkTime = 0
    /\ lastVolume = "none"
    /\ watchdogFired = FALSE
    /\ symbolCount = 0
    /\ sameClassFrames = 0
    /\ reads = 0
    /\ preview = << >>
    /\ markVolume = volumeThreshold + 1
    /\ fed = 0
    /\ trail = 0
    /\ persistedFreqIndex = defaultFreqIndex
    /\ smoothedFreqIndex = Unset
    /\ framesSinceLastPeak = 0
    /\ frequencyData = Flat(0)
    /\ lossRun = 0
    /\ analysis = NoAnalysis
    /\ capturing = FALSE
    /\ audioCapturer = [mediaStream |-> null, audioContext |-> null, analyser |-> null]
    /\ liveStreams = {}
    /\ starting = 0
    /\ lastStart = [n |-> 0, failed |-> FALSE, stream |-> null]
    /\ analyzerMade = FALSE
    /\ animationFrameId = FALSE
    /\ callbacks = 0
    /\ due = 0
    /\ frameCalls = 0
    /\ pipeline = [frames |-> 0, analyzed |-> 0]
    /\ sharpest = NoSearch
    /\ twin = [ state |-> SPACE,
                currentStateDuration |-> 0,
                currentSequence |-> << >>,
                decodedText |-> << >>,
                lastMarkTime |-> 0 ]
    /\ noise = [replaced |-> 0, open |-> FALSE]
    /\ feed = [runs |-> << >>, left |-> 0]
    /\ runLog = << >>
    /\ volumeHistory = << >>
    /\ spectrogramHistory = << >>
    /\ frequencyHistory = << >>
    /\ markers = {}
    /\ renderCalls = 0

NextDecoder == Process \/ Tick

\* a free-running session: any frames, any clock
SpecDecoder == Init /\ [][NextDecoder]_vars

\* one frame of a session that is read between frames: one symbol fewer
\* is keyed than in a free-running session
ReaderProcess ==
    \E v \in Volumes :
        /\ withinBounds(v)
        /\ (state = MARK /\ classify(v) = SPACE /\ currentStateDuration > 1) =>
               symbolCount < MaxSymbols - 1
        /\ process(v)
        /\ UNCHANGED <<sosVars, trackerVars, appVars, probeVars, rendererVars>>

NextReader == ReaderProcess \/ Tick \/ GetDecodedText

\* a free-running session whose text is read between frames
SpecReader == Init /\ [][NextReader]_vars

\* a session in which the operator has just keyed the symbols of one
\* character: the first SPACE frame after the last MARK run has been taken
InitPending ==
    /\ state = SPACE
    /\ currentStateDuration = 1
    /\ currentSequence \in UNION { [1..n -> {".", "-"}] : n \in 1..MaxPending }
    /\ decodedText = << >>
    /\ now = 0
    /\ lastMarkTime = 0
    /\ lastVolume = volumeThreshold
    /\ watchdogFired = FALSE
    /\ symbolCount = Len(currentSequence)
    /\ sameClassFrames = 1
    /\ reads = 0
    /\ preview = << >>
    /\ markVolume = volumeThreshold + 1
    /\ fed = 0
    /\ trail = 0
    /\ persistedFreqIndex = defaultFreqIndex
    /\ smoothedFreqIndex = Unset
    /\ framesSinceLastPeak = 0
    /\ frequencyData = Flat(0)
    /\ lossRun = 0
    /\ analysis = NoAnalysis
    /\ capturing = FALSE
    /\ audioCapturer = [mediaStream |-> null, audioContext |-> null, analyser |-> null]
    /\ liveStreams = {}
    /\ starting = 0
    /\ lastStart = [n |-> 0, failed |-> FALSE, stream |-> null]
    /\ analyzerMade = FALSE
    /\ animationFrameId = FALSE
    /\ callbacks = 0
    /\ due = 0
    /\ frameCalls = 0
    /\ pipeline = [frames |-> 0, analyzed |-> 0]
    /\ sharpest = NoSearch
    /\ twin = [ state |-> SPACE,
                currentStateDuration |-> 0,
                currentSequence |-> << >>,
                decodedText |-> << >>,
                lastMarkTime |-> 0 ]
    /\ noise = [replaced |-> 0, open |-> FALSE]
    /\ feed = [runs |-> << >>, left |-> 0]
    /\ runLog = << >>
    /\ volumeHistory = << >>
    /\ spectrogramHistory = << >>
    /\ frequencyHistory = << >>
    /\ markers = {}
    /\ renderCalls = 0

SpecPending == InitPending /\ [][NextDecoder]_vars

\* the SOS session: a fresh decoder, then the pattern at one of the MARK
\* volumes, then silence, then one MARK frame
InitSOSSession ==
    /\ state = SPACE
    /\ currentStateDuration = 0
    /\ currentSequence = << >>
    /\ decodedText = << >>
    /\ now = 0
    /\ lastMarkTime = 0
    /\ lastVolume = "none"
    /\ watchdogFired = FALSE
    /\ symbolCount = 0
    /\ sameClassFrames = 0
    /\ reads = 0
    /\ preview = << >>
    /\ markVolume \in MarkVolumes
    /\ fed = 0
    /\ trail = 0
    /\ persistedFreqIndex = defaultFreqIndex
    /\ smoothedFreqIndex = Unset
    /\ framesSinceLastPeak = 0
    /\ frequencyData = Flat(0)
    /\ lossRun = 0
    /\ analysis = NoAnalysis
    /\ capturing = FALSE
    /\ audioCapturer = [mediaStream |-> null, audioContext |-> null, analyser |-> null]
    /\ liveStreams = {}
    /\ starting = 0
    /\ lastStart = [n |-> 0, failed |-> FALSE, stream |-> null]
    /\ analyzerMade = FALSE
    /\ animationFrameId = FALSE
    /\ callbacks = 0
    /\ due = 0
    /\ frameCalls = 0
    /\ pipeline = [frames |-> 0, analyzed |-> 0]
    /\ sharpest = NoSearch
    /\ twin = [ state |-> SPACE,
                currentStateDuration |-> 0,
                currentSequence |-> << >>,
                decodedText |-> << >>,
                lastMarkTime |-> 0 ]
    /\ noise = [replaced |-> 0, open |-> FALSE]
    /\ feed = [runs |-> << >>, left |-> 0]
    /\ runLog = << >>
    /\ volumeHistory = << >>
    /\ spectrogramHistory = << >>
    /\ frequencyHistory = << >>
    /\ markers = {}
    /\ renderCalls = 0

NextSOS == Feed \/ TrailSpace \/ TrailMark \/ Tick

SpecSOS == InitSOSSession /\ [][NextSOS]_vars

\* one frame of the driving loop, seen by the tracker
Analyze ==
    \E fd \in Snapshots :
        /\ analyzeWithinBounds(fd)
        /\ analyze(fd)
        /\ UNCHANGED <<decoderVars, sosVars, appVars, probeVars, rendererVars>>

NextTracker == Analyze

\* a tracker session: any snapshots of the session's set
SpecTracker == Init /\ [][NextTracker]_vars

\* snapshot lengths other than the session's: empty, one bin (nothing at or
\* above the cutoff bin), shorter than the first search window's start,
\* ending exactly where that window starts, ending just past the default
\* bin, and the full length
ShortLengths ==
    {0, 1, cutoffBin + 4, defaultBin - searchNeighborhood, defaultBin + 1, N}
\* a uniform snapshot of len bins
ShortFlat(len, m) == [i \in 0..(len - 1) |-> m]
\* a snapshot of len bins, silent but for its last bin
ShortPeak(len, m) == [i \in 0..(len - 1) |-> IF i = len - 1 THEN m ELSE 0]
ShortSnapshots ==
    { ShortFlat(len, m) : len \in ShortLengths, m \in {0, 100} }
        \cup { ShortPeak(len, 200) : len \in ShortLengths }

\* analyze on a snapshot of any length
AnalyzeShort ==
    \E fd \in ShortSnapshots :
        /\ framesSinceLastPeak < MaxShortLoss
        /\ analyzeWithinBounds(fd)
        /\ analyze(fd)
        /\ UNCHANGED <<decoderVars, sosVars, appVars, probeVars, rendererVars>>

NextShort == AnalyzeShort

\* a tracker that is handed snapshots of any length
SpecShort == Init /\ [][NextShort]_vars

(***************************************************************************)
(* UIRenderer: the three histories and the markers drawn under the volume  *)
(* graph. Volumes are fractions, frequency indices fixed-point values, as  *)
(* analyze returns them.                                                   *)
(***************************************************************************)
\* a history that gives up its newest entry when it has outgrown the limit
pushed_popNewest(history, x) ==
    IF Len(history) + 1 > maxHistorySize
    THEN history
    ELSE Append(history, x)

\* history.push(x); if (history.length > maxHistorySize) history.shift()
pushed(history, x) ==
    IF Len(history) + 1 > maxHistorySize
    THEN Tail(Append(history, x))
    ELSE Append(history, x)

\* a marker type that takes a MARK run of exactly dahTimeFrames for a dit
markerType_dahExclusive(currentState, duration) ==
    IF duration > 1
    THEN IF currentState = MARK
         THEN IF ~FracGT(Frac(duration), dahTimeFrames) THEN "dit" ELSE "dah"
         ELSE IF FracGT(Frac(duration), wordSpaceFrames) THEN "word_space"
              ELSE IF FracGT(Frac(duration), charSpaceFrames) THEN "char_space"
              ELSE "none"
    ELSE "none"

\* the type _drawVolumeHistoryDecorations chooses for a run of duration
\* frames in currentState ("none": drawMarker is not called)
markerType(currentState, duration) ==
    IF duration > 1
    THEN IF currentState = MARK
         THEN IF FracLT(Frac(duration), dahTimeFrames) THEN "dit" ELSE "dah"
         ELSE IF FracGT(Frac(duration), wordSpaceFrames) THEN "word_space"
              ELSE IF FracGT(Frac(duration), charSpaceFrames) THEN "char_space"
              ELSE "none"
    ELSE "none"

\* what drawMarker(startIndex, endIndex, type) draws
drawMarker(startIndex, endIndex, type) ==
    IF type = "none" THEN {} ELSE {<<startIndex, endIndex, type>>}

\* the state of history entry i (from 0): volumeHistory[i] > threshold
isMark(history, i) ==
    IF FracGT(history[i + 1], Frac(volumeThreshold)) THEN MARK ELSE SPACE

\* the first entry from i on whose state differs from currentState, where
\* the loop finds newState !== currentState; the length if there is none
nextChange(history, i, currentState) ==
    IF \A j \in i..(Len(history) - 1) : isMark(history, j) = currentState
    THEN Len(history)
    ELSE SetMin({ j \in i..(Len(history) - 1) : isMark(history, j) # currentState })

\* the loop over volumeHistory for the run that starts at runStartIndex in
\* currentState and for the runs after it, the last run included
RECURSIVE scanned(_, _, _)
scanned(history, currentState, runStartIndex) ==
    UNION { drawMarker(runStartIndex, i, markerType(currentState, i - runStartIndex))
                \cup (IF i = Len(history) THEN {}
                      ELSE scanned(history, isMark(history, i), i)) :
            i \in {nextChange(history, runStartIndex, currentState)} }

\* _drawVolumeHistoryDecorations() of a renderer constructed with a decoder
\* (decoder TRUE) or without one: the markers it draws
drawVolumeHistoryDecorations(decoder, history) ==
    IF ~decoder THEN {}
    ELSE scanned(history,
                 IF Len(history) > 0 /\ isMark(history, 0) = MARK THEN MARK ELSE SPACE,
                 0)

\* render(timeDomainData, frequencyData, analysisResult)
render(decoder, fd, targetVolume, dominantFreqIndex) ==
    /\ volumeHistory' = pushed(volumeHistory, targetVolume)
    /\ spectrogramHistory' = pushed(spectrogramHistory, fd)
    /\ frequencyHistory' = pushed(frequencyHistory, dominantFreqIndex)
    /\ markers' = drawVolumeHistoryDecorations(decoder, pushed(volumeHistory, targetVolume))
    /\ renderCalls' = renderCalls + 1

\* a stop() that closes the audio context but leaves the stream alone
stop_keepStream(c, live) ==
    [ fields |->
          [ mediaStream |-> c.mediaStream,
            audioContext |-> null,
            analyser |-> IF c.audioContext # null THEN null ELSE c.analyser ],
      live |-> live ]

\* AudioCapturer.stop() on the capturer fields c while the streams of the
\* set live have running tracks: the fields and the live streams after it
stop(c, live) ==
    [ fields |->
          [ mediaStream |-> null,
            audioContext |-> null,
            analyser |-> IF c.audioContext # null THEN null ELSE c.analyser ],
      live |-> IF c.mediaStream # null THEN live \ {c.mediaStream} ELSE live ]

\* the places where AudioCapturer.start() can fail
FailurePoints == {"getUserMedia", "AudioContext", "createAnalyser", "connect"}

\* the capturer fields when start() call id, resumed on the fields c, throws
\* at the given place: getUserMedia rejects before anything is assigned,
\* new AudioContext() throws after mediaStream is assigned, createAnalyser
\* (or createMediaStreamSource) after audioContext is, connect after all
reachedBefore(point, c, id) ==
    IF point = "getUserMedia" THEN c
    ELSE IF point = "AudioContext" THEN [c EXCEPT !.mediaStream = id]
    ELSE IF point = "createAnalyser"
    THEN [c EXCEPT !.mediaStream = id, !.audioContext = id]
    ELSE [mediaStream |-> id, audioContext |-> id, analyser |-> id]

\* what getByteFrequencyData fills in for an animation frame: silence,
\* broadband noise, or a loud tone at the default bin or near it
FrameSnapshots ==
    FlatSnapshots \cup { OnePeak(0, p, 200) : p \in {defaultBin, defaultBin + 3} }

\* App.update() with the analyser node and the analyzer it finds; fresh
\* tells whether the snapshot it reads is a new one (a direct call or the
\* first callback of an animation frame) or the one the previous callback
\* of the same animation frame has read
update(analyserNode, analyzer, fresh) ==
    /\ IF analyserNode # null /\ analyzer
       THEN /\ fresh => pipeline.frames < MaxFrames
            /\ \E fd \in (IF fresh THEN FrameSnapshots ELSE {frequencyData}) :
                   /\ analyzeWithinBounds(fd)
                   /\ analyze(fd)
                   /\ render(FALSE, fd, analysis'.targetVolume,
                             analysis'.dominantFreqIndex)
            /\ pipeline' = [ frames |-> pipeline.frames + (IF fresh THEN 1 ELSE 0),
                             analyzed |-> pipeline.analyzed + 1 ]
            /\ frameCalls' = IF fresh THEN 1 ELSE frameCalls + 1
       ELSE UNCHANGED <<trackerVars, pipeline, frameCalls, rendererVars>>
    /\ callbacks' = callbacks + 1
    /\ animationFrameId' = TRUE

\* handleStateChange(true) after its await: the analyzer is made when an
\* analyser node is found, and update() is called
afterStart(c) ==
    /\ analyzerMade' = (analyzerMade \/ c.analyser # null)
    /\ update(c.analyser, analyzerMade \/ c.analyser # null, TRUE)

\* the button is clicked while the label is Start: handleStateChange(true).
\* start() returns at once when an audioContext exists, and the handler
\* goes on to update(); otherwise the handler waits for getUserMedia
ClickStart ==
    /\ ~capturing
    /\ due = 0
    /\ capturing' = TRUE
    /\ IF audioCapturer.audioContext # null
       THEN /\ afterStart(audioCapturer)
            /\ UNCHANGED <<audioCapturer, liveStreams, starting, lastStart, due>>
       ELSE /\ lastStart.n + starting < MaxStarts
            /\ starting' = starting + 1
            /\ UNCHANGED <<audioCapturer, liveStreams, lastStart, analyzerMade,
                           animationFrameId, callbacks, due, frameCalls, pipeline,
                           trackerVars, rendererVars>>
    /\ UNCHANGED <<decoderVars, sosVars, probeVars>>

\* getUserMedia resolves for a waiting handler and the audio graph is set
\* up: start() assigns the three fields, the handler goes on to update()
Granted ==
    /\ starting > 0
    /\ due = 0
    /\ \E id \in {lastStart.n + 1} :
       \E c \in {[mediaStream |-> id, audioContext |-> id, analyser |-> id]} :
           /\ audioCapturer' = c
           /\ liveStreams' = liveStreams \cup {id}
           /\ lastStart' = [n |-> id, failed |-> FALSE, stream |-> id]
           /\ afterStart(c)
    /\ starting' = starting - 1
    /\ UNCHANGED <<capturing, due>>
    /\ UNCHANGED <<decoderVars, sosVars, probeVars>>

\* start() fails for a waiting handler: its catch block calls stop() and
\* rethrows, the handler's catch block reports the error
Failed ==
    /\ starting > 0
    /\ due = 0
    /\ \E id \in {lastStart.n + 1} : \E point \in FailurePoints :
       \E c \in {reachedBefore(point, audioCapturer, id)} :
       \E acquired \in {IF point = "getUserMedia" THEN null ELSE id} :
       \E live \in {IF acquired # null THEN liveStreams \cup {id} ELSE liveStreams} :
           /\ audioCapturer' = stop(c, live).fields
           /\ liveStreams' = stop(c, live).live
           /\ lastStart' = [n |-> id, failed |-> TRUE, stream |-> acquired]
    /\ starting' = starting - 1
    /\ UNCHANGED <<capturing, analyzerMade, animationFrameId, callbacks, due,
                   frameCalls, pipeline>>
    /\ UNCHANGED <<decoderVars, sosVars, trackerVars, probeVars, rendererVars>>

\* the button is clicked while the label is Stop: handleStateChange(false)
ClickStop ==
    /\ capturing
    /\ due = 0
    /\ capturing' = FALSE
    /\ audioCapturer' = stop(audioCapturer, liveStreams).fields
    /\ liveStreams' = stop(audioCapturer, liveStreams).live
    /\ IF animationFrameId
       THEN callbacks' = callbacks - 1 /\ animationFrameId' = FALSE
       ELSE UNCHANGED <<callbacks, animationFrameId>>
    /\ UNCHANGED <<starting, lastStart, analyzerMade, due, frameCalls, pipeline>>
    /\ UNCHANGED <<decoderVars, sosVars, trackerVars, probeVars, rendererVars>>

\* the browser begins an animation frame: the callbacks requested so far
\* are the ones it will run
Frame ==
    /\ callbacks > 0
    /\ due = 0
    /\ pipeline.frames < MaxFrames
    /\ due' = callbacks
    /\ callbacks' = 0
    /\ frameCalls' = 0
    /\ UNCHANGED <<capturing, audioCapturer, liveStreams, starting, lastStart,
                   analyzerMade, animationFrameId, pipeline>>
    /\ UNCHANGED <<decoderVars, sosVars, trackerVars, probeVars, rendererVars>>

\* App.update, called back by requestAnimationFrame
Update ==
    /\ due > 0
    /\ due' = due - 1
    /\ update(audioCapturer.analyser, analyzerMade, frameCalls = 0)
    /\ UNCHANGED <<capturing, audioCapturer, liveStreams, starting, lastStart,
                   analyzerMade>>
    /\ UNCHANGED <<decoderVars, sosVars, probeVars>>

NextApp == ClickStart \/ Granted \/ Failed \/ ClickStop \/ Frame \/ Update

\* the application: the button, the microphone request and the frame loop
SpecApp == Init /\ [][NextApp]_vars

\* a single narrow peak of each shape at every bin of the snapshot
NarrowPeakSnapshots ==
    { OnePeak(x[1], p, x[2]) : x \in PeakShapes, p \in Bins }

\* the first frame of a session
Acquire ==
    /\ ~analysis.called
    /\ \E fd \in NarrowPeakSnapshots : analyze(fd)
    /\ UNCHANGED <<decoderVars, sosVars, appVars, probeVars, rendererVars>>

NextAcquire == Acquire

\* the first analyze call of a freshly constructed tracker, on a snapshot
\* with a single narrow peak
SpecAcquire == Init /\ [][NextAcquire]_vars

\* the bins of a peak whose neighbourhood is tested: next to the cutoff,
\* closer to bin 0 than the neighbourhood reaches, the default bin, the
\* bin whose neighbourhood ends at the last bin, and the last bin
ShoulderPeakBins == {cutoffBin, neighborhood - 2, defaultBin, N - 1 - neighborhood, N - 1}
\* where a second, lower bin stands relative to the peak: just outside the
\* neighbourhood, at its edges, just outside and just inside the excluded
\* band around the peak
ShoulderOffsets ==
    { 0 - (neighborhood + 1), 0 - neighborhood, 0 - (frequencyBandwidth + 1),
      0 - frequencyBandwidth, frequencyBandwidth, frequencyBandwidth + 1,
      neighborhood - 1, neighborhood, neighborhood + 1 }
\* the shapes <<background, shoulder, peak>>: a peak that passes the
\* sharpness test against the background alone, the same over silence, and
\* a peak just below the noise floor
ShoulderShapes == {<<36, 99, 100>>, <<0, 99, 100>>, <<0, 20, noiseThreshold - 1>>}
\* a peak at bin p and a lower shoulder d bins away from it
Shoulder(x, p, d) ==
    IF p + d \in Bins
    THEN (p :> x[3]) @@ ((p + d) :> x[2]) @@ Flat(x[1])
    ELSE (p :> x[3]) @@ Flat(x[1])
ShoulderSnapshots ==
    { Shoulder(x, p, d) : x \in ShoulderShapes, p \in ShoulderPeakBins, d \in ShoulderOffsets }
\* the search ranges <<startIndex, endIndex>> of the calls: the whole
\* snapshot and the range of the global search
SearchRanges == {<<0, N>>, <<cutoffBin, N>>}

\* a direct call _findSharpestPeak(data, startIndex, endIndex)
FindSharpestPeak ==
    \E data \in ShoulderSnapshots : \E range \in SearchRanges :
        /\ sharpest' = [ called |-> TRUE,
                         data |-> data,
                         startIndex |-> range[1],
                         endIndex |-> range[2],
                         result |-> findSharpestPeak(data, FromBin(range[1]),
                                                     FromBin(range[2])) ]
        /\ UNCHANGED <<decoderVars, sosVars, trackerVars, appVars, twin, noise, feed,
                       runLog, rendererVars>>

NextSharp == FindSharpestPeak

\* _findSharpestPeak on snapshots with a peak and a lower second bin
SpecSharp == Init /\ [][NextSharp]_vars

\* one frame given to both decoders; the frame after a replaced one is
\* SPACE, so that the replaced MARK frame was an isolated one
PairProcess ==
    \E v \in Volumes :
        /\ noise.open => classify(v) = SPACE
        /\ withinBounds(v)
        /\ (state = MARK /\ classify(v) = SPACE /\ currentStateDuration > 1) =>
               symbolCount < MaxSymbols - 1
        /\ process(v)
        /\ twin' = afterProcess(twin, now, v)
        /\ noise' = [noise EXCEPT !.open = FALSE]
        /\ UNCHANGED <<sosVars, trackerVars, appVars, sharpest, feed, runLog,
                       rendererVars>>

\* a MARK frame directly after a SPACE frame goes to the first decoder and
\* a SPACE frame in its place to the second
NoiseProcess ==
    /\ state = SPACE
    /\ sameClassFrames > 0
    /\ ~noise.open
    /\ noise.replaced < MaxNoise
    /\ process(volumeThreshold + 1)
    /\ twin' = afterProcess(twin, now, volumeThreshold)
    /\ noise' = [replaced |-> noise.replaced + 1, open |-> TRUE]
    /\ UNCHANGED <<sosVars, trackerVars, appVars, sharpest, feed, runLog,
                   rendererVars>>

NextNoise == PairProcess \/ NoiseProcess

\* two decoders on the same frame sequence, without and with one-frame noise
SpecNoise == Init /\ [][NextNoise]_vars

(***************************************************************************)
(* A session in which every frame goes to decoder.process and to           *)
(* renderer.render, the renderer having been constructed with the decoder. *)
(***************************************************************************)
\* the lengths of the MARK runs: one frame, two, and both sides of the
\* boundary between dit and dah
MarkRunLengths == {1, 2, 2 * unitFrames - 1, 2 * unitFrames}
\* the lengths of the SPACE runs: one frame, both sides of the character
\* and of the word boundary, and a silence that nearly fills the history
SpaceRunLengths ==
    {1, 2 * unitFrames, 2 * unitFrames + 1, 5 * unitFrames, 5 * unitFrames + 1,
     maxHistorySize - 10}

\* the frame of a run: a volume just above the threshold on a tone at the
\* default bin, or a volume at the threshold with no target
sessionFrame(class) ==
    IF class = MARK
    THEN [ targetVolume |-> volumeThreshold + 1,
           dominantFreqIndex |-> defaultFreqIndex,
           frequencyData |-> Flat(100) ]
    ELSE [ targetVolume |-> volumeThreshold,
           dominantFreqIndex |-> Unset,
           frequencyData |-> Flat(0) ]

\* the runs <<class, length>> the next frame can belong to: the run under
\* way, or a new run of the other class
nextRuns ==
    IF feed.left > 0 THEN {feed.runs[Len(feed.runs)]}
    ELSE IF Len(feed.runs) >= MaxRuns THEN {}
    ELSE IF feed.runs # << >> /\ feed.runs[Len(feed.runs)][1] = MARK
         THEN {SPACE} \X SpaceRunLengths
    ELSE IF feed.runs # << >>
         THEN {MARK} \X MarkRunLengths
    ELSE ({SPACE} \X SpaceRunLengths) \cup ({MARK} \X MarkRunLengths)

\* one frame of the session: process(targetVolume), whose call of
\* _handleStateChange for an ended run is logged, and render(...)
DecodeAndRender ==
    \E run \in nextRuns : \E f \in {sessionFrame(run[1])} :
        /\ feed' = IF feed.left > 0
                   THEN [feed EXCEPT !.left = @ - 1]
                   ELSE [runs |-> Append(feed.runs, run), left |-> run[2] - 1]
        /\ runLog' =
               IF classify(f.targetVolume) # state /\ currentStateDuration > 0
               THEN Append(runLog,
                           [ start |-> renderCalls - currentStateDuration,
                             end |-> renderCalls,
                             branch |-> handleStateChangeBranch(
                                            state, Frac(currentStateDuration)) ])
               ELSE runLog
        /\ process(f.targetVolume)
        /\ render(TRUE, f.frequencyData, Frac(f.targetVolume), f.dominantFreqIndex)
        /\ UNCHANGED <<sosVars, trackerVars, appVars, sharpest, twin, noise>>

NextRender == DecodeAndRender

\* the decoder and the renderer on the same frames
SpecRender == Init /\ [][NextRender]_vars


(***************************************************************************)
(* Properties of MorseDecoder.                                             *)
(***************************************************************************)
\* the call is a process call that ends a SPACE run with a MARK frame
endsSpaceRun == state = SPACE /\ state' = MARK
\* the call is a process call that ends a MARK run with a SPACE frame
endsMarkRun == state = MARK /\ state' = SPACE
charBoundary == FracGT(Frac(currentStateDuration), charSpaceFrames)
wordBoundary == FracGT(Frac(currentStateDuration), wordSpaceFrames)
NoDoubleSpace(text) ==
    \A i \in 1..(Len(text) - 1) : ~(text[i] = " " /\ text[i + 1] = " ")

\* C1: a process call in which a SPACE frame ends a MARK run of k frames
\* appends to currentSequence nothing if k = 1, exactly one "." if
\* 1 < k < dahTimeFrames and exactly one "-" if k >= dahTimeFrames, where
\* dahTimeFrames is 18 with the defaults.
C1_MarkRunSymbol ==
    [][ endsMarkRun =>
          LET k == currentStateDuration
          IN  /\ dahTimeFrames[1] = 18 * dahTimeFrames[2]
              /\ currentSequence' =
                     IF k = 1 THEN currentSequence
                     ELSE IF k < 18 THEN Append(currentSequence, ".")
                     ELSE Append(currentSequence, "-") ]_vars

\* a dit and then a dah have been keyed; the dah's run has just been ended
C1_Witness ==
    /\ state = SPACE
    /\ currentStateDuration = 1
    /\ symbolCount = 2
    /\ currentSequence = <<".", "-">>

\* C2 as stated: once the whole SOS pattern has been fed, getDecodedText()
\* is "SOS".
C2_Original ==
    fed = Len(SOSPattern) => getDecodedText = <<"S", "O", "S">>

\* C2 amended: when the last frame of the SOS pattern has been fed,
\* getDecodedText() is "SO.." (the third dit is still an open MARK run);
\* during the silence after the pattern it is "SO..."; it is "SOS" once a
\* silence of more than charSpaceFrames and at most wordSpaceFrames frames
\* has been ended by a MARK frame, and "SOS " after a longer silence.
C2_SOSAfterBoundary ==
    fed = Len(SOSPattern) =>
        IF trail = 0
        THEN state = MARK /\ getDecodedText = <<"S", "O", ".", ".">>
        ELSE IF state = SPACE
        THEN getDecodedText = <<"S", "O", ".", ".", ".">>
        ELSE LET k == trail - 1
             IN  getDecodedText =
                     IF k > 45 THEN <<"S", "O", "S", " ">>
                     ELSE IF k > 18 THEN <<"S", "O", "S">>
                     ELSE <<"S", "O", ".", ".", ".">>

\* the pattern, a char-space silence and the closing MARK frame have been fed
C2_Witness ==
    /\ fed = Len(SOSPattern)
    /\ trail > 1
    /\ state = MARK
    /\ decodedText = <<"S", "O", "S">>
    /\ currentSequence = << >>

\* C3 as stated: a process call made more than resetTimeout after
\* lastMarkTime with a pending sequence appends the sequence's character
\* and a word-boundary space to decodedText and leaves nothing of the old
\* sequence in currentSequence.
C3_WatchdogFlush ==
    [][ (now' = now /\ idleTimeout /\ currentSequence # << >>) =>
          /\ decodedText' = decodedText \o <<lookup(currentSequence), " ">>
          /\ currentSequence' \in {<< >>, <<".">>, <<"-">>} ]_vars

\* C4 as stated, in the form a finite run decides: when symbols have been
\* keyed and a SPACE frame of the continuing silence has been processed
\* with the clock more than resetTimeout past the last MARK frame, the
\* pending sequence has been finalized without any further MARK frame:
\* currentSequence is empty and decodedText ends with a space.
C4_SilenceFinalizes ==
    (symbolCount > 0 /\ watchdogFired /\ state = SPACE /\ currentStateDuration > 1) =>
        (currentSequence = << >> /\ endsWithSpace(decodedText))

\* C5: decodedText never holds two consecutive spaces, and the call that
\* ends a SPACE run longer than wordSpaceFrames with a pending sequence
\* appends the sequence's character and exactly one space, whether or not
\* the watchdog branch is taken during that silence.
C5_WordBoundary ==
    /\ [](NoDoubleSpace(decodedText))
    /\ [][ (endsSpaceRun /\ wordBoundary /\ currentSequence # << >>) =>
             decodedText' = decodedText \o <<lookup(currentSequence), " ">> ]_vars

\* two characters with one space between them; the second word-space
\* silence outlasted the watchdog timeout before its closing MARK frame
C5_Witness ==
    /\ state = MARK
    /\ currentStateDuration = 1
    /\ watchdogFired
    /\ Len(decodedText) = 4
    /\ decodedText[1] # " " /\ decodedText[2] = " "
    /\ decodedText[3] # " " /\ decodedText[4] = " "

\* C10 as stated: at a character boundary (a SPACE run longer than
\* charSpaceFrames ended by a MARK frame) an unmapped pending sequence
\* appends exactly "?" and is cleared, and an empty one changes nothing.
C10_Original ==
    [][ (endsSpaceRun /\ charBoundary) =>
          IF currentSequence = << >>
          THEN decodedText' = decodedText /\ currentSequence' = << >>
          ELSE currentSequence \notin DOMAIN MORSE_CODE_MAP =>
                   /\ decodedText' = Append(decodedText, "?")
                   /\ currentSequence' = << >> ]_vars

\* C10 amended: at such a boundary an unmapped pending sequence appends
\* exactly "?" (followed by the single word-boundary space when the run is
\* longer than wordSpaceFrames) and is cleared; with an empty sequence no
\* character is appended and the only possible change is that
\* word-boundary space, added when none is trailing.
C10_Unmapped ==
    [][ (endsSpaceRun /\ charBoundary) =>
          IF currentSequence = << >>
          THEN /\ currentSequence' = << >>
               /\ decodedText' =
                      IF wordBoundary /\ ~endsWithSpace(decodedText)
                      THEN Append(decodedText, " ") ELSE decodedText
          ELSE currentSequence \notin DOMAIN MORSE_CODE_MAP =>
                   /\ decodedText' =
                          Append(decodedText, "?") \o
                              (IF wordBoundary THEN <<" ">> ELSE << >>)
                   /\ currentSequence' = << >> ]_vars

\* six symbols were pending and a char-space boundary has decoded them
C10_Witness ==
    /\ state = MARK
    /\ currentStateDuration = 1
    /\ symbolCount = 6
    /\ decodedText = <<"?">>
    /\ currentSequence = << >>

\* text a is a prefix of text b
IsPrefix(a, b) == Len(a) <= Len(b) /\ SubSeq(b, 1, Len(a)) = a
\* the step is a process call (the clock stands still during a call)
processCall == now' = now /\ reads' = 0 /\ sameClassFrames' > 0

\* C11: the process call in which a MARK frame ends a SPACE run of d frames
\* decodes the pending sequence and appends a single space unless one is
\* trailing if d > wordSpaceFrames (45); decodes the pending sequence and
\* adds no space if 18 = charSpaceFrames < d <= 45; and leaves decodedText
\* and currentSequence unchanged if d <= 18, d = 18 included.
C11_SpaceRunFinalization ==
    [][ endsSpaceRun =>
          LET d == currentStateDuration
              decoded == IF currentSequence = << >> THEN decodedText
                         ELSE Append(decodedText, lookup(currentSequence))
          IN  /\ charSpaceFrames[1] = 18 * charSpaceFrames[2]
              /\ wordSpaceFrames[1] = 45 * wordSpaceFrames[2]
              /\ IF d > 45
                 THEN /\ currentSequence' = << >>
                      /\ decodedText' = IF endsWithSpace(decoded) THEN decoded
                                        ELSE Append(decoded, " ")
                 ELSE IF d > 18
                 THEN /\ currentSequence' = << >>
                      /\ decodedText' = decoded
                 ELSE /\ currentSequence' = currentSequence
                      /\ decodedText' = decodedText ]_vars

\* a dit, a char-space silence, a dah and a second char-space silence: two
\* characters with no space between them
C11_Witness ==
    /\ state = MARK
    /\ currentStateDuration = 1
    /\ symbolCount = 2
    /\ currentSequence = << >>
    /\ decodedText = <<"E", "T">>

\* C12: across every process call and every getDecodedText call the previous
\* decodedText is a prefix of the new one, so its length never decreases.
C12_AppendOnly ==
    [][ /\ IsPrefix(decodedText, decodedText')
        /\ Len(decodedText') >= Len(decodedText) ]_vars

\* text has been appended twice, and the text has been read since
C12_Witness ==
    /\ Len(decodedText) >= 2
    /\ decodedText[1] # " "
    /\ reads > 0
    /\ preview = decodedText \o currentSequence

\* C13 as stated: across a process call currentSequence keeps its previous
\* content as a prefix or becomes empty, and it goes from non-empty to empty
\* exactly in the calls that finalize a SPACE run longer than
\* charSpaceFrames, ended by a MARK frame or forced by the idle watchdog;
\* those calls append the sequence's character to decodedText.
C13_ClearedAtBoundaries ==
    [][ processCall =>
          LET cleared == currentSequence # << >> /\ currentSequence' = << >>
              boundary == \/ endsSpaceRun /\ charBoundary
                          \/ idleTimeout /\ ~endsMarkRun
          IN  /\ IsPrefix(currentSequence, currentSequence') \/ currentSequence' = << >>
              /\ cleared <=> (currentSequence # << >> /\ boundary)
              /\ cleared =>
                     IsPrefix(Append(decodedText, lookup(currentSequence)), decodedText') ]_vars

\* C14: getDecodedText is idempotent and read-only: a call changes none of
\* state, currentStateDuration, currentSequence, decodedText and
\* lastMarkTime, and a call that follows another with no process call in
\* between returns the same string.
C14_ReadOnlyIdempotent ==
    [][ reads' = reads + 1 =>
          /\ UNCHANGED <<state, currentStateDuration, currentSequence,
                         decodedText, lastMarkTime>>
          /\ reads > 0 => preview' = preview ]_vars

\* the text was read twice while a decoded character and a pending symbol
\* were held: both calls returned the character and the symbol's preview
C14_Witness ==
    /\ reads = 2
    /\ decodedText = <<"E">>
    /\ currentSequence = <<"-">>
    /\ preview = <<"E", "-">>

\* C19: after every process call, state is MARK if and only if the call's
\* targetVolume was strictly greater than volumeThreshold, and
\* currentStateDuration is the number of most recent consecutive frames of
\* that classification, at least 1.
C19_RunTracking ==
    sameClassFrames > 0 =>
        /\ state = MARK <=> lastVolume > volumeThreshold
        /\ currentStateDuration = sameClassFrames
        /\ currentStateDuration >= 1

\* three SPACE frames at exactly the threshold volume after a keyed symbol
C19_Witness ==
    /\ state = SPACE
    /\ symbolCount = 1
    /\ currentStateDuration = 3
    /\ sameClassFrames = 3
    /\ lastVolume = volumeThreshold

(***************************************************************************)
(* Properties of MorseAnalyzer.                                            *)
(***************************************************************************)
\* the last call was made on a uniform snapshot of magnitude m
flatCall(m) == analysis.called /\ frequencyData = Flat(m)
\* the magnitudes of the session's uniform snapshots
FlatMagnitudes == {0, 100}

\* C6 as stated: in every reachable tracker state, analyze on a uniform
\* snapshot returns targetVolume 0 and dominantFreqIndex none (-1).
C6_Original ==
    \A m \in FlatMagnitudes :
        flatCall(m) =>
            /\ analysis.targetVolume[1] = 0
            /\ analysis.dominantFreqIndex = Unset

\* C6 amended: analyze on a uniform snapshot accepts no peak; it returns
\* none and targetVolume 0 exactly when no position was tracked before the
\* call or the loss counter has passed maxFramesToPersist, and otherwise
\* returns the retained smoothed index unchanged with targetVolume equal to
\* the snapshot's uniform magnitude.
C6_FlatSpectrum ==
    \A m \in FlatMagnitudes :
        flatCall(m) =>
            /\ analysis.raw = -1
            /\ IF analysis.prevSmoothed = Unset
                  \/ framesSinceLastPeak > maxFramesToPersist
               THEN /\ analysis.dominantFreqIndex = Unset
                    /\ analysis.targetVolume = <<0, 1>>
               ELSE /\ analysis.dominantFreqIndex = analysis.prevSmoothed
                    /\ analysis.dominantFreqIndex # Unset
                    /\ analysis.targetVolume[2] > 0
                    /\ analysis.targetVolume[1] = m * analysis.targetVolume[2]

\* a tone was acquired and the next frame is loud broadband noise: the
\* call still reports the acquired bin, with the noise as its volume
C6_Witness ==
    /\ flatCall(100)
    /\ framesSinceLastPeak = 1
    /\ analysis.dominantFreqIndex = FromBin(defaultBin + 3)
    /\ analysis.targetVolume[1] = 100 * analysis.targetVolume[2]

\* the last call was the first of the session, on a single narrow peak of
\* shape x at bin p
firstCallOn(x, p) == analysis.called /\ frequencyData = OnePeak(x[1], p, x[2])
\* the window of the first local search, around the default bin
inFirstWindow(p) ==
    /\ p >= defaultBin - searchNeighborhood
    /\ p < defaultBin + searchNeighborhood

\* C7 as stated: the first analyze call of a fresh tracker on a snapshot
\* with a single narrow acceptable peak, at any bin, reports an index
\* within frequencyBandwidth bins of the peak bin.
C7_Original ==
    \A x \in PeakShapes : \A p \in Bins :
        firstCallOn(x, p) =>
            /\ analysis.dominantFreqIndex # Unset
            /\ Abs(analysis.dominantFreqIndex - FromBin(p)) <= FromBin(frequencyBandwidth)

\* C7 amended: the first analyze call of a fresh tracker on a snapshot with
\* a single narrow acceptable peak reports exactly the peak bin when the
\* peak is at or above the cutoff bin of the global search (or inside the
\* first local window), and reports none with targetVolume 0 when the peak
\* is below that cutoff.
C7_FirstAcquisition ==
    \A x \in PeakShapes : \A p \in Bins :
        firstCallOn(x, p) =>
            IF p >= cutoffBin \/ inFirstWindow(p)
            THEN /\ analysis.raw = p
                 /\ analysis.dominantFreqIndex = FromBin(p)
                 /\ persistedFreqIndex = FromBin(p)
            ELSE /\ analysis.raw = -1
                 /\ analysis.dominantFreqIndex = Unset
                 /\ analysis.targetVolume = <<0, 1>>

\* the first call snapped to a peak at the last bin, far outside the first
\* local window
C7_Witness ==
    /\ firstCallOn(<<40, 100>>, N - 1)
    /\ analysis.prevSmoothed = Unset
    /\ smoothedFreqIndex = FromBin(N - 1)

\* C8: after maxFramesToPersist + 1 consecutive analyze calls in which no
\* peak is accepted, smoothedFreqIndex is unset and persistedFreqIndex
\* equals defaultFreqIndex, whatever position was tracked before.
C8_SustainedLossReset ==
    lossRun >= maxFramesToPersist + 1 =>
        /\ smoothedFreqIndex = Unset
        /\ persistedFreqIndex = defaultFreqIndex

\* the call that completed the run of lost frames gave up a position that
\* was not the default bin
C8_Witness ==
    /\ lossRun = maxFramesToPersist + 1
    /\ analysis.prevSmoothed # Unset
    /\ analysis.prevPersisted # defaultFreqIndex
    /\ smoothedFreqIndex = Unset
    /\ persistedFreqIndex = defaultFreqIndex

\* bin i lies in [anchor - searchNeighborhood, anchor + searchNeighborhood]
inWindow(i, anchor) == Abs(FromBin(i) - anchor) <= FromBin(searchNeighborhood)
\* bin i of data passes the noise floor and the sharpness test
acceptable(data, i) == data[i] >= noiseThreshold /\ ~tooFlat(data, i)

\* C9 as stated: whenever an acceptable peak lies inside the window
\* [anchor - searchNeighborhood, anchor + searchNeighborhood] around the
\* anchor persistedFreqIndex, analyze takes the maximum inside that window
\* as the raw peak and does not jump to a peak outside the window, for
\* every reachable anchor, non-integer ones included.
C9_LocalitySearch ==
    [][ LET fd == frequencyData'
            anchor == persistedFreqIndex
            window == { i \in DOMAIN fd : inWindow(i, anchor) }
        IN  (analysis'.called /\ \E i \in window : acceptable(fd, i)) =>
                /\ analysis'.raw \in window
                /\ \A i \in window : fd[i] <= fd[analysis'.raw] ]_vars

\* C15: after every analyze call, smoothedFreqIndex is unset if and only if
\* the call reported no target (dominantFreqIndex -1 with targetVolume 0),
\* and when it is set the reported index is exactly smoothedFreqIndex.
C15_UnsetIffNoTarget ==
    analysis.called =>
        /\ smoothedFreqIndex = Unset <=>
               (analysis.dominantFreqIndex = FromBin(-1) /\ analysis.targetVolume = <<0, 1>>)
        /\ smoothedFreqIndex # Unset => analysis.dominantFreqIndex = smoothedFreqIndex

\* a lost frame within the persistence limit: no peak was accepted, and
\* the call still reported the smoothed, non-integer index
C15_Witness ==
    /\ analysis.called
    /\ analysis.raw = -1
    /\ smoothedFreqIndex # Unset
    /\ ~IsBin(smoothedFreqIndex)
    /\ analysis.dominantFreqIndex = smoothedFreqIndex

\* C16: in every reachable tracker state persistedFreqIndex is a valid bin
\* position: never the unset value -1, and between 0 and N - 1 for the
\* session's snapshots of N bins (the default bin being below N).
C16_AnchorValid ==
    /\ defaultBin < N
    /\ persistedFreqIndex # Unset
    /\ persistedFreqIndex >= FromBin(0)
    /\ persistedFreqIndex <= FromBin(N - 1)

\* the anchor has fallen back to the default bin after a sustained loss of
\* a position tracked elsewhere
C16_Witness ==
    /\ framesSinceLastPeak > maxFramesToPersist
    /\ analysis.prevPersisted > FromBin(defaultBin + searchNeighborhood)
    /\ persistedFreqIndex = defaultFreqIndex

\* C20: when analyze accepts a raw peak at bin r, smoothedFreqIndex becomes
\* exactly r if it was unset and s + (r - s) * smoothingFactor otherwise,
\* which lies between the previous value s and r and does not pass r; in
\* both cases persistedFreqIndex equals the new smoothedFreqIndex and
\* framesSinceLastPeak is 0.
C20_SmoothingStep ==
    (analysis.called /\ analysis.raw # -1) =>
        LET r == FromBin(analysis.raw)
            s == analysis.prevSmoothed
        IN  /\ IF s = Unset
               THEN smoothedFreqIndex = r
               ELSE /\ (smoothedFreqIndex - s) * smoothingFactor[2]
                           = (r - s) * smoothingFactor[1]
                    /\ Min(s, r) <= smoothedFreqIndex
                    /\ smoothedFreqIndex <= Max(s, r)
            /\ persistedFreqIndex = smoothedFreqIndex
            /\ framesSinceLastPeak = 0

\* two smoothing steps in a row towards a peak three bins below the
\* position first snapped to
C20_Witness ==
    /\ analysis.called
    /\ analysis.raw = defaultBin
    /\ analysis.prevSmoothed # Unset
    /\ ~IsBin(analysis.prevSmoothed)
    /\ smoothedFreqIndex < analysis.prevSmoothed
    /\ smoothedFreqIndex > FromBin(defaultBin)

\* C17: analyze completes with a result on every snapshot, an empty one,
\* an all-zero one and one too short for the search window or the default
\* anchor included: the raw peak is a bin of the snapshot or none,
\* targetVolume is a number (not 0 / 0), search ranges that miss the
\* snapshot give no peak, and nothing outside the tracker changes.
C17_NoErrorNoOutsideEffect ==
    [][ LET fd == frequencyData'
            len == Length(fd)
            anchor == persistedFreqIndex
            localEmpty == Max(0, anchor - FromBin(searchNeighborhood)) >= FromBin(len)
            globalEmpty == cutoffBin >= len
        IN  /\ analysis'.called
            /\ analysis'.raw = -1 \/ analysis'.raw \in DOMAIN fd
            /\ analysis'.targetVolume[2] > 0
            /\ analysis'.targetVolume[1] >= 0
            /\ (localEmpty /\ globalEmpty) => analysis'.raw = -1
            /\ len = 0 => analysis'.targetVolume[1] = 0
            /\ UNCHANGED <<decoderVars, sosVars, appVars, probeVars, rendererVars>> ]_vars

\* an empty snapshot was analyzed while a position was tracked: the call
\* reported that position with targetVolume 0
C17_Witness ==
    /\ analysis.called
    /\ Length(frequencyData) = 0
    /\ smoothedFreqIndex # Unset
    /\ analysis.dominantFreqIndex = smoothedFreqIndex
    /\ analysis.targetVolume = <<0, 1>>

\* C18 as stated: every frame the driving loop takes is passed to analyze
\* exactly once and its targetVolume is then passed to MorseDecoder.process
\* exactly once, so once a frame has been taken the decoder has been given
\* a frame.
C18_PerFramePipeline ==
    pipeline.frames > 0 =>
        /\ pipeline.analyzed = pipeline.frames
        /\ sameClassFrames > 0

\* C21: an analyze call that accepts no peak and leaves framesSinceLastPeak
\* at or below maxFramesToPersist changes neither smoothedFreqIndex nor
\* persistedFreqIndex; framesSinceLastPeak counts the consecutive lost
\* frames, so a tracker with a target reports the same index during the
\* first maxFramesToPersist (30) consecutive lost frames and reports none
\* from the next consecutive lost frame on.
C21_LossTolerance ==
    /\ maxFramesToPersist = 30
    /\ [](framesSinceLastPeak = lossRun)
    /\ [][ (analysis'.called /\ analysis'.raw = -1) =>
             IF lossRun' <= 30
             THEN /\ smoothedFreqIndex' = smoothedFreqIndex
                  /\ persistedFreqIndex' = persistedFreqIndex
                  /\ analysis'.dominantFreqIndex = smoothedFreqIndex
             ELSE analysis'.dominantFreqIndex = FromBin(-1) ]_vars

\* the thirtieth consecutive lost frame still reports a smoothed,
\* non-integer position away from the default bin
C21_Witness ==
    /\ analysis.called
    /\ analysis.raw = -1
    /\ lossRun = maxFramesToPersist
    /\ ~IsBin(smoothedFreqIndex)
    /\ persistedFreqIndex = smoothedFreqIndex
    /\ analysis.dominantFreqIndex = smoothedFreqIndex

\* the bins of the search range [startIndex, endIndex) of the observed call
searched == { i \in DOMAIN sharpest.data :
                  i >= sharpest.startIndex /\ i < sharpest.endIndex }
\* the first bin of the searched range that holds its largest magnitude
maxBin == SetMin({ i \in searched : \A j \in searched :
                                         sharpest.data[j] <= sharpest.data[i] })
\* what the call returns when the bins nb are the peak's neighbourhood:
\* no peak below the noise floor, the peak if its magnitude is at least
\* sharpnessThreshold times the mean of nb, no peak otherwise
expectedPeak(nb) ==
    LET data == sharpest.data
        p == maxBin
    IN  IF data[p] < noiseThreshold THEN NoPeak
        ELSE IF nb = {} \/ data[p] * sharpnessThreshold[2] * Cardinality(nb)
                               >= Sum(data, nb) * sharpnessThreshold[1]
        THEN [index |-> p, volume |-> data[p]]
        ELSE NoPeak

\* C22 as stated: _findSharpestPeak takes the maximum-magnitude bin p of
\* the search range, returns no peak if its magnitude is below
\* noiseThreshold, and otherwise accepts p if and only if its magnitude is
\* at least sharpnessThreshold times the mean of all in-bounds bins i with
\* frequencyBandwidth < |i - p| <= 10, ten bins on both sides of the peak.
C22_PeakSharpness ==
    sharpest.called =>
        sharpest.result =
            expectedPeak({ i \in DOMAIN sharpest.data :
                               /\ Abs(i - maxBin) > frequencyBandwidth
                               /\ Abs(i - maxBin) <= 10 })

\* the integer nearest to the index s (in units of 1 / Scale), halves up
nearestBin(s) ==
    CHOOSE r \in 0..N : (2 * r - 1) * Scale <= 2 * s /\ 2 * s < (2 * r + 1) * Scale

\* C23: whenever smoothedFreqIndex s is set after an analyze call, the
\* returned targetVolume is the arithmetic mean of the snapshot bins from
\* max(0, round(s) - frequencyBandwidth) to min(N - 1, round(s) +
\* frequencyBandwidth) inclusive, the returned index is the unrounded s, and
\* targetVolume lies between the smallest and the largest magnitude of the
\* snapshot.
C23_VolumeOutput ==
    (analysis.called /\ smoothedFreqIndex # Unset) =>
        LET fd == frequencyData
            r == nearestBin(smoothedFreqIndex)
            window == { i \in Bins : /\ i >= Max(0, r - frequencyBandwidth)
                                     /\ i <= Min(N - 1, r + frequencyBandwidth) }
            t == analysis.targetVolume
            magnitudes == { fd[i] : i \in Bins }
        IN  /\ t[2] > 0
            /\ window # {}
            /\ t[1] * Cardinality(window) = Sum(fd, window) * t[2]
            /\ analysis.dominantFreqIndex = smoothedFreqIndex
            /\ SetMin(magnitudes) * t[2] <= t[1]
            /\ t[1] <= SetMax(magnitudes) * t[2]

\* the smoothed index is not an integer and rounds up, and the window
\* around the rounded index holds the tone
C23_Witness ==
    /\ analysis.called
    /\ smoothedFreqIndex # Unset
    /\ 2 * (smoothedFreqIndex % Scale) >= Scale
    /\ analysis.dominantFreqIndex = smoothedFreqIndex
    /\ analysis.targetVolume[1] > 0

\* C24: a process call sets lastMarkTime to the current time exactly when
\* its frame is classified MARK and leaves it unchanged otherwise; the
\* watchdog condition is evaluated at the start of every call, against the
\* lastMarkTime the call finds; it holds on every call made more than
\* resetTimeout after the latest MARK frame, so after a SPACE frame that
\* found it true it is still true for the next call, and after a MARK frame
\* it is false until the clock has advanced again.
C24_WatchdogTiming ==
    /\ [][ processCall =>
             /\ lastMarkTime' = IF lastVolume' > volumeThreshold THEN now
                                 ELSE lastMarkTime
             /\ watchdogFired' <=> (now - lastMarkTime > resetTimeout) ]_vars
    /\ []((watchdogFired /\ state = SPACE) => now - lastMarkTime > resetTimeout)
    /\ [][ (processCall /\ state' = MARK) => now' - lastMarkTime' = 0 ]_vars
    /\ [](lastMarkTime <= now)

\* the watchdog condition held on a call whose frame was MARK: the call
\* after a keyed symbol and ten seconds of silence stamped lastMarkTime
C24_Witness ==
    /\ watchdogFired
    /\ state = MARK
    /\ currentStateDuration = 1
    /\ symbolCount = 1
    /\ now = 2 * resetTimeout
    /\ lastMarkTime = now

\* C25: what getDecodedText() returns is decodedText followed by the raw
\* "." and "-" tokens of currentSequence, in order, and nothing else:
\* nothing is appended when no symbol is pending, and decodedText is a
\* prefix of the returned string.
C25_LivePreview ==
    reads > 0 =>
        /\ Len(preview) = Len(decodedText) + Len(currentSequence)
        /\ \A i \in 1..Len(decodedText) : preview[i] = decodedText[i]
        /\ \A i \in 1..Len(currentSequence) :
               /\ preview[Len(decodedText) + i] = currentSequence[i]
               /\ preview[Len(decodedText) + i] \in {".", "-"}
        /\ currentSequence = << >> => preview = decodedText
        /\ IsPrefix(decodedText, preview)

\* a dit and a dah are pending after a word space at the start of the
\* session; one call returned the space and the two raw tokens
C25_Witness ==
    /\ reads = 1
    /\ currentSequence = <<".", "-">>
    /\ decodedText = <<" ">>
    /\ preview = <<" ", ".", "-">>

\* C27: with the default parameters a process call changes decodedText only
\* if its frame is classified MARK and the state before the call was SPACE;
\* a call whose frame is classified SPACE never changes decodedText,
\* however long the silence lasts and whether or not the idle timeout has
\* passed.
C27_TextChangesOnMarkOnly ==
    [][ processCall =>
          /\ decodedText' # decodedText =>
                 (lastVolume' > volumeThreshold /\ state = SPACE)
          /\ lastVolume' <= volumeThreshold => decodedText' = decodedText ]_vars

\* a symbol has been pending through a silence of the longest modelled
\* length that outlasted the idle timeout: the text is still what it was
C27_Witness ==
    /\ state = SPACE
    /\ watchdogFired
    /\ currentStateDuration = MaxSpaceRun
    /\ currentSequence = <<"-">>
    /\ decodedText = <<"E">>

\* C28 as stated: every space in decodedText is immediately preceded by a
\* decoded non-space character; in particular decodedText never begins
\* with a space.
C28_Original ==
    \A i \in 1..Len(decodedText) :
        decodedText[i] = " " => (i > 1 /\ decodedText[i - 1] # " ")

\* C28 amended: every space in decodedText other than a leading one is
\* immediately preceded by a decoded non-space character; decodedText
\* begins with a space exactly when, while it is still empty, a MARK frame
\* ends a SPACE run longer than wordSpaceFrames with no symbol pending, as
\* when the session starts with such a silence before the first MARK frame.
C28_SpacesFollowCharacters ==
    /\ [](\A i \in 2..Len(decodedText) :
              decodedText[i] = " " => decodedText[i - 1] # " ")
    /\ [][ (processCall /\ decodedText = << >>) =>
             ((decodedText' # << >> /\ decodedText'[1] = " ")
                  <=> (endsSpaceRun /\ wordBoundary /\ currentSequence = << >>)) ]_vars

\* the session began with a long silence and one character was keyed and
\* ended by a second long silence: a leading space, the character, a space
C28_Witness ==
    /\ state = MARK
    /\ currentStateDuration = 1
    /\ symbolCount = 1
    /\ decodedText = <<" ", "E", " ">>

\* C29 as stated: replacing an isolated one-frame MARK (SPACE frames
\* directly before and after it) by a SPACE frame leaves decodedText and
\* currentSequence at the end of the frame sequence the same as for the
\* original sequence.
C29_NoiseTransparent ==
    (noise.replaced > 0 /\ ~noise.open) =>
        /\ twin.decodedText = decodedText
        /\ twin.currentSequence = currentSequence

(***************************************************************************)
(* Properties of App and AudioCapturer.                                    *)
(***************************************************************************)
\* C26: when a start() call fails, at the microphone request or in the
\* audio graph setup, stop() has run when the error reaches
\* handleStateChange: audioContext, analyser and mediaStream are all null,
\* the tracks of the stream the call had acquired are stopped, and the
\* handler starts no frame loop: it requests no callback, takes no
\* snapshot and calls neither update nor analyze.
C26_StartFailureCleanup ==
    [][ (lastStart'.n = lastStart.n + 1 /\ lastStart'.failed) =>
          /\ audioCapturer'.audioContext = null
          /\ audioCapturer'.analyser = null
          /\ audioCapturer'.mediaStream = null
          /\ lastStart'.stream # null => lastStart'.stream \notin liveStreams'
          /\ UNCHANGED <<callbacks, due, animationFrameId, frameCalls, pipeline,
                         analyzerMade, trackerVars>> ]_vars

\* the first start() call acquired a stream and failed in the graph setup:
\* nothing is held, nothing is live and no callback is pending, while the
\* button shows Stop
C26_Witness ==
    /\ lastStart = [n |-> 1, failed |-> TRUE, stream |-> 1]
    /\ capturing
    /\ audioCapturer = [mediaStream |-> null, audioContext |-> null, analyser |-> null]
    /\ liveStreams = {}
    /\ callbacks = 0
    /\ pipeline.frames = 0

\* C30 as stated: for every interleaving of Start and Stop clicks with the
\* completion of audioCapturer.start(), at most one requestAnimationFrame
\* callback of App.update is pending, so no snapshot is analysed twice.
C30_SingleFrameLoop ==
    /\ callbacks + due <= 1
    /\ frameCalls <= 1

\* C31 as stated: whenever the button shows Start (isCapturing false) and
\* no audioCapturer.start() call is waiting, the capturer holds no audio
\* context and no media stream with live tracks, and no App.update
\* callback is scheduled or running.
C31_StoppedMeansReleased ==
    (~capturing /\ starting = 0) =>
        /\ audioCapturer.audioContext = null
        /\ audioCapturer.mediaStream \notin liveStreams
        /\ callbacks + due = 0

\* C32: in every reachable tracker state persistedFreqIndex is coupled to
\* smoothedFreqIndex: it equals defaultFreqIndex while smoothedFreqIndex is
\* unset, and equals smoothedFreqIndex while that is set.
C32_AnchorCoupling ==
    /\ smoothedFreqIndex = Unset => persistedFreqIndex = defaultFreqIndex
    /\ smoothedFreqIndex # Unset => persistedFreqIndex = smoothedFreqIndex

\* both sides have occurred in one session: a smoothed, non-integer
\* position away from the default bin was given up by the last call, and
\* the anchor is back at the default bin
C32_Witness ==
    /\ analysis.called
    /\ analysis.prevSmoothed # Unset
    /\ ~IsBin(analysis.prevSmoothed)
    /\ analysis.prevPersisted = analysis.prevSmoothed
    /\ analysis.prevPersisted # defaultFreqIndex
    /\ smoothedFreqIndex = Unset
    /\ persistedFreqIndex = defaultFreqIndex

\* C33: after every analyze call framesSinceLastPeak is the number of
\* consecutive most recent calls that accepted no peak, and while
\* smoothedFreqIndex is set it does not exceed maxFramesToPersist.
C33_LossCounter ==
    /\ analysis.called => framesSinceLastPeak = lossRun
    /\ smoothedFreqIndex # Unset => framesSinceLastPeak <= maxFramesToPersist

\* the call in which the counter passes maxFramesToPersist: it counts the
\* whole run of lost frames, and the target held until then is given up
C33_Witness ==
    /\ analysis.called
    /\ analysis.raw = -1
    /\ analysis.prevSmoothed # Unset
    /\ framesSinceLastPeak = maxFramesToPersist + 1
    /\ lossRun = maxFramesToPersist + 1
    /\ smoothedFreqIndex = Unset

(***************************************************************************)
(* Properties of UIRenderer.                                               *)
(***************************************************************************)
\* every frame of the runs, in the order the session takes them
RECURSIVE framesOf(_)
framesOf(runs) ==
    IF runs = << >> THEN << >>
    ELSE Rep(runs[1][2], sessionFrame(runs[1][1])) \o framesOf(Tail(runs))

\* the frames rendered so far, in arrival order
arrivals == SubSeq(framesOf(feed.runs), 1, renderCalls)
\* the last n entries of a sequence
lastOf(seq, n) == SubSeq(seq, Len(seq) - n + 1, Len(seq))
\* the number of frames the histories have dropped
dropped == renderCalls - Len(volumeHistory)

\* C34: after every render call the three histories have the same length,
\* min(number of render calls, maxHistorySize = 300), and hold the parts of
\* the most recent frames in arrival order, the oldest having been dropped.
C34_BoundedFIFO ==
    /\ maxHistorySize = 300
    /\ Len(volumeHistory) = Min(renderCalls, maxHistorySize)
    /\ Len(spectrogramHistory) = Len(volumeHistory)
    /\ Len(frequencyHistory) = Len(volumeHistory)
    /\ \E recent \in {lastOf(arrivals, Min(renderCalls, maxHistorySize))} :
           /\ volumeHistory = [i \in DOMAIN recent |-> Frac(recent[i].targetVolume)]
           /\ spectrogramHistory = [i \in DOMAIN recent |-> recent[i].frequencyData]
           /\ frequencyHistory = [i \in DOMAIN recent |-> recent[i].dominantFreqIndex]

\* ten frames have been dropped from full histories that begin with what
\* is left of a MARK run and end with the first frames of the next one
C34_Witness ==
    /\ renderCalls = maxHistorySize + 10
    /\ Len(volumeHistory) = maxHistorySize
    /\ volumeHistory[1] = Frac(volumeThreshold + 1)
    /\ volumeHistory[2 * unitFrames - 10 + 1] = Frac(volumeThreshold)
    /\ frequencyHistory[1] = defaultFreqIndex
    /\ spectrogramHistory[1] = Flat(100)
    /\ spectrogramHistory[maxHistorySize - 2] = Flat(0)
    /\ spectrogramHistory[maxHistorySize] = Flat(100)

\* the types of the markers drawn over the history entries [a, b)
markersOver(a, b) == { m \in markers : m[1] < b /\ m[2] > a }
\* the marker type that stands for a branch of _handleStateChange
markerFor(branch) ==
    IF branch = "." THEN "dit"
    ELSE IF branch = "-" THEN "dah"
    ELSE IF branch = "character boundary" THEN "char_space"
    ELSE IF branch = "word boundary" THEN "word_space"
    ELSE "none"
\* the renderer shows the logged run r as the decoder classified it
agrees(r) ==
    markersOver(r.start - dropped, r.end - dropped) =
        drawMarker(r.start - dropped, r.end - dropped, markerFor(r.branch))

\* C35: when the decoder and the renderer are fed the same volumes, every
\* run that has ended and lies completely inside the history window is
\* drawn with the marker type of the branch _handleStateChange took for
\* it: dit for '.', dah for '-', char_space and word_space for the two
\* boundaries, and no marker where the decoder took no action.
C35_MarkerAgreement ==
    \A k \in DOMAIN runLog : runLog[k].start >= dropped => agrees(runLog[k])

\* past the history limit: a dah has lost its first frames and is drawn as
\* a dit, while the silence after it, complete in the window, is drawn as
\* the word space the decoder took it for
C35_Witness ==
    /\ renderCalls > maxHistorySize
    /\ Len(runLog) = 2
    /\ runLog[1].branch = "-"
    /\ runLog[1].start < dropped
    /\ <<0, runLog[1].end - dropped, "dit">> \in markers
    /\ runLog[2].branch = "word boundary"
    /\ runLog[2].start >= dropped
    /\ <<runLog[2].start - dropped, runLog[2].end - dropped, "word_space">> \in markers

====
